---- MODULE Spec2Model ----
(***************************************************************************)
(* Verification model of the Cardiac-Monitoring-System pipeline.           *)
(*                                                                         *)
(* Two state machines share this module:                                   *)
(*                                                                         *)
(*   SpecRB / LiveRB   one RingBuffer<T> (include/ring_buffer.h) driven by *)
(*                     one producer thread, one consumer thread and one    *)
(*                     thread calling Shutdown, with the mutex and the     *)
(*                     condition variable modelled explicitly.             *)
(*   Spec / LiveSpec   the whole process (src/main.cpp, application.cpp,   *)
(*                     ecg_analyzer.cpp, file_manager.cpp and the TCP file *)
(*                     server): main thread, signal handler, acquisition,  *)
(*                     analyzer, writer and server threads.                *)
(*                                                                         *)
(* Each specification leaves the variables of the other one unchanged.     *)
(***************************************************************************)
EXTENDS Integers, Sequences, FiniteSets, TLC

(***************************************************************************)
(* Bounds of the model (not program constants).                            *)
(***************************************************************************)
\* largest ring-buffer capacity explored by SpecRB (capacities 1..MaxCap)
MaxCap == 2
\* number of AddData calls the producer of SpecRB makes
MaxAdd == 4
\* number of Shutdown calls made in SpecRB
MaxShutdowns == 2
\* Spec: cadence slots of one acquisition run (expected_sample <= MaxSlots);
\* the acquisition duration elapses at some slot, any slot
MaxSlots == 3
\* Spec: capacity of RB-raw and RB-class (config::kBufferSize, scaled down)
BufferSize == 2
\* Spec: ecg_config::kTWindow in samples (400 ms of samples, scaled down)
TWindow == 1
\* Spec: max_batch_size of FileManager::WriteAvailableData (100, scaled down)
MaxBatch == 2
\* Spec: number of shutdown signals delivered
MaxSignals == 1
\* Spec: number of TCP clients that connect
MaxClients == 1
\* SpecNet: number of shutdown signals delivered
ManySignals == 2
\* SpecNet: number of TCP clients that connect
ManyClients == 2
\* SpecAn: samples the analyzer consumes in one run
MaxStream == 11
\* SpecAn: the windows of ecg_config in samples, scaled down in their order
\* (80 ms < 200 ms < 300 ms < 400 ms of samples)
kQSWindow == 1
kPWindow == 2
kRefractoryPeriod == 3
kTWindow == 4
\* SpecWr: samples the writer consumes, and the latest timestamp of a sample
MaxFileSamples == 3
MaxStamp == 5
\* SpecCad: the time at which the acquisition ends, and the longest stall of the
\* thread, in milliseconds
EndTime == 36
MaxStall == 12

\* std::optional<T>: std::nullopt is <<>>, a value x is <<x>>
None == <<>>
Some(x) == <<x>>

\* A value-initialised T, the content of a slot never written
\* (buffer_(size) in the constructor).
DefaultT == 0

\* client_socket_ when no client is registered (-1 in the code)
NoSocket == 0

VARIABLES
  \* ---- SpecRB: the ring buffer object and its three threads
  rb,          \* [buffer, head, tail, full, shutdown, max_size]
  mutex,       \* owner of mutex_: "none" or "c" (the consumer inside wait's predicate)
  p_pc,        \* producer: "idle" | "notify"
  c_pc,        \* consumer: "idle" | "towait" | "waiting" | "woken"
  s_pc,        \* thread calling Shutdown: "idle" | "notify"
  c_ret,       \* result of the consumer's last returned call
  c_last,      \* the consumer's last returned call: "none" | "Consume" | "TryConsume"
  c_tick,      \* flips each time a consumer call returns
  nextId,      \* value the next AddData call passes (x_1 = 1, x_2 = 2, ...)
  shutCalls,   \* number of Shutdown calls started
  \* history of SpecRB
  accepted,    \* values stored by AddData, in order
  rejected,    \* number of AddData calls that ran after shutdown
  consumed,    \* values returned to the consumer, in order
  unreadCount, \* elements added and retained but not yet consumed
  addAfterConsume, \* an AddData stored a value after some value had been consumed
  atShutdown,  \* unread elements when the shutdown flag was first set
  postShut,    \* results of the Consume calls returning after that
  blockedAtShutdown, \* the consumer was blocked in wait, buffer empty, when the flag was set
  \* ---- Spec: Application (main thread) and the signal handler
  running,            \* Application::running_
  shutdown_requested, \* Application::shutdown_requested_
  main_pc,            \* where the main thread is in main / Start / Run
  path,               \* branch Run took: "none" | "graceful" | "normal"
  sig_pc,             \* signal handler: "idle" | "mid" (between its two stores)
  sigCount,           \* signals delivered
  \* ---- acquisition thread
  acq_pc,             \* "off" | "head" | "sleep" | "add" | "exit" | "shut" | "done"
  expected_sample,    \* cadence slot index k
  elapsed,            \* steady_clock::now() >= end_time
  rbRaw,              \* RB-raw
  rbClass,            \* RB-class
  \* ---- analyzer thread
  processing,         \* ECGAnalyzer::processing_
  an_pc,              \* "off" | "check" | "consume" | "xfer" | "drain" | "final" | "shutc" | "done"
  an_back,            \* loop the analyzer is in: "check" | "drain"
  samples,            \* ECGAnalyzer::samples_ (sample ids)
  last_transferred_pos, \* ECGAnalyzer::last_transferred_pos_
  xfer_i,             \* loop index i of the transfer loops
  \* ---- writer thread
  writing,            \* FileManager::writing_
  wr_pc,              \* "off" | "wcheck" | "batch" | "echeck" | "ebatch" | "flush" | "done"
  batch_count,        \* batch_count of WriteAvailableData
  written,            \* samples written to both files, in order
  files_open,         \* csv_stream_ and bin_stream_ are open
  \* ---- TCP file server
  tcp_running,        \* TCPFileServer::running_
  tcp_pc,             \* server thread: "off" | "head" | "accept" | "store" | "ready" | "sendlock" | "sendbody" | "done"
  server_socket,      \* the listening socket is open
  client_socket,      \* registered client socket, NoSocket when none
  new_client_socket,  \* socket returned by accept, not yet registered
  files_ready,        \* TCPFileServer::files_ready_
  client_mutex,       \* owner of client_mutex_: "none" | "main" | "srv"
  nclients,           \* clients that have connected
  sentTo,             \* clients that were sent the FILES header, in order
  closed_clients,     \* client sockets that have been closed
  \* ---- history of Spec
  added,              \* samples the acquisition loop passed to AddData on RB-raw
  overflow,           \* some AddData found RB-raw or RB-class full
  acq_joined, an_stop_called, an_joined, wr_stop_called, wr_joined,
  tcp_touched,        \* the Application has called SendAvailableFiles or Stop on the server
  tcp_stopped,        \* TCPFileServer::Stop has returned to the Application
  send_calls,         \* calls of SendAvailableFiles made by the Application
  app_stopped,        \* Application::Stop has returned
  second_stops,       \* stages whose Stop has been called again after returning
  send_log,           \* per call of the Application to SendAvailableFiles: the client
                      \* registered and the number of connections accepted at that time
  \* ---- SpecAn: the analyzer on voltages
  ecg,                \* [samples, detected_beats, last_transferred_pos] of an ECGAnalyzer
  ecg_hist,           \* history: [consumed, emitted, tags, r_stamps, done]
  \* ---- the environment of one run
  clients_total,      \* TCP clients that connect during the run
  signals_total,      \* shutdown signals delivered during the run
  \* ---- SpecWr: the FileManager on samples
  fm_pc,              \* where the FileManager is: Init, Run, WritingLoop, Stop
  fm_writing,         \* FileManager::writing_
  fm_count,           \* batch_count of WriteAvailableData, final_count of FlushRemainingData
  csv_stream,         \* [is_open, header, data, flushed]: the CSV file and its rows
  bin_stream,         \* [is_open, header, data, flushed]: the binary file and its records
  first_timestamp,    \* FileManager::first_timestamp_
  samples_written,    \* FileManager::samples_written_
  fm_consumed,        \* history: the samples Consume returned to the writer
  \* ---- SpecCad: the cadence of the acquisition loop, in milliseconds since start_time
  cad_pc,             \* where AcquisitionLoop is
  cad_now,            \* steady_clock::now() - start_time
  cad_expected_sample,\* expected_sample
  cad_target_time,    \* target_time - start_time
  cad_sampled,        \* history: the slots for which a sample was added
  cad_twice,          \* history: a sample was added for a slot that had one
  cad_resync          \* history: the time at which the last iteration resynced, if it did

rbVars == <<rb, mutex, p_pc, c_pc, s_pc, c_ret, c_last, c_tick, nextId, shutCalls,
            accepted, rejected, consumed, unreadCount, addAfterConsume,
            atShutdown, postShut, blockedAtShutdown>>

appVars == <<running, shutdown_requested, main_pc, path, sig_pc, sigCount>>
acqVars == <<acq_pc, expected_sample, elapsed>>
anVars == <<processing, an_pc, an_back, samples, last_transferred_pos, xfer_i>>
wrVars == <<writing, wr_pc, batch_count, written, files_open>>
tcpVars == <<tcp_running, tcp_pc, server_socket, client_socket, new_client_socket,
             files_ready, client_mutex, nclients, sentTo, closed_clients>>
histVars == <<added, overflow, acq_joined, an_stop_called, an_joined, wr_stop_called,
              wr_joined, tcp_touched, tcp_stopped, send_calls, app_stopped,
              second_stops, send_log>>
pipeVars == <<appVars, acqVars, rbRaw, rbClass, anVars, wrVars, tcpVars, histVars>>

ecgVars == <<ecg, ecg_hist>>

envVars == <<clients_total, signals_total>>

fileVars == <<fm_pc, fm_writing, fm_count, csv_stream, bin_stream, first_timestamp,
              samples_written, fm_consumed>>

cadVars == <<cad_pc, cad_now, cad_expected_sample, cad_target_time, cad_sampled,
             cad_twice, cad_resync>>

vars == <<rbVars, pipeVars, ecgVars, envVars, fileVars, cadVars>>

(***************************************************************************)
(* RingBuffer<T>                                                           *)
(***************************************************************************)
\* RingBuffer(size): buffer_(size), head_ 0, tail_ 0, full_ false, shutdown_ false
NewRingBuffer(size) ==
  [buffer |-> [i \in 0..(size - 1) |-> DefaultT],
   head |-> 0, tail |-> 0, full |-> FALSE, shutdown |-> FALSE, max_size |-> size]

Empty(b) == ~b.full /\ (b.head = b.tail)

Full(b) == b.full

Size(b) ==
  IF b.full THEN b.max_size
  ELSE IF b.head >= b.tail THEN b.head - b.tail
       ELSE b.max_size + b.head - b.tail

\* AddData variants with a defect, used to test the claims below.
\* On a full buffer the tail is not advanced.
AddData_NoTailAdvance(b, data) ==
  IF b.shutdown THEN b
  ELSE LET head1 == (b.head + 1) % b.max_size
       IN [b EXCEPT !.buffer[b.head] = data,
                    !.head = head1,
                    !.full = (head1 = b.tail)]

\* On a full buffer the new element is dropped instead of the oldest.
AddData_DropNewest(b, data) ==
  IF b.shutdown \/ b.full THEN b
  ELSE LET head1 == (b.head + 1) % b.max_size
       IN [b EXCEPT !.buffer[b.head] = data,
                    !.head = head1,
                    !.full = (head1 = b.tail)]

\* The shutdown flag is not tested.
AddData_IgnoreShutdown(b, data) ==
  LET tail1 == IF b.full THEN (b.tail + 1) % b.max_size ELSE b.tail
      head1 == (b.head + 1) % b.max_size
  IN [b EXCEPT !.buffer[b.head] = data,
               !.tail = tail1,
               !.head = head1,
               !.full = (head1 = tail1)]

\* The locked block of AddData: the state it leaves.
AddData(b, data) ==
  IF b.shutdown THEN b
  ELSE LET tail1 == IF b.full THEN (b.tail + 1) % b.max_size ELSE b.tail
           head1 == (b.head + 1) % b.max_size
       IN [b EXCEPT !.buffer[b.head] = data,
                    !.tail = tail1,
                    !.head = head1,
                    !.full = (head1 = tail1)]

\* The wait predicate of Consume.
ConsumeReady(b) == ~Empty(b) \/ b.shutdown

\* Consume variant with a defect: None as soon as the shutdown flag is set.
ConsumeResult_ShutdownFirst(b) ==
  IF b.shutdown THEN None ELSE Some(b.buffer[b.tail])

\* Consume variant with a defect: the tail is not advanced.
ConsumeState_KeepTail(b) ==
  IF b.shutdown /\ Empty(b) THEN b
  ELSE [b EXCEPT !.full = FALSE]

\* What Consume returns once its predicate holds, and the state it leaves.
ConsumeResult(b) ==
  IF b.shutdown /\ Empty(b) THEN None ELSE Some(b.buffer[b.tail])

ConsumeState(b) ==
  IF b.shutdown /\ Empty(b) THEN b
  ELSE [b EXCEPT !.full = FALSE, !.tail = (b.tail + 1) % b.max_size]

TryConsumeResult(b) ==
  IF Empty(b) \/ b.shutdown THEN None ELSE Some(b.buffer[b.tail])

TryConsumeState(b) ==
  IF Empty(b) \/ b.shutdown THEN b
  ELSE [b EXCEPT !.full = FALSE, !.tail = (b.tail + 1) % b.max_size]

\* Shutdown variant with a defect: the flag is flipped instead of set.
ShutdownState_Toggle(b) == [b EXCEPT !.shutdown = ~b.shutdown]

\* Shutdown variant with a defect: the flag is not set.
ShutdownState_NoFlag(b) == b

\* Shutdown variant with a defect: the unread elements are discarded.
ShutdownState_Discard(b) == [b EXCEPT !.shutdown = TRUE, !.head = b.tail, !.full = FALSE]

ShutdownState(b) == [b EXCEPT !.shutdown = TRUE]

\* The unread elements, oldest first, read off buffer_/head_/tail_/full_.
Contents(b) == [i \in 1..Size(b) |-> b.buffer[(b.tail + i - 1) % b.max_size]]

(***************************************************************************)
(* ECGAnalyzer on voltages: R-peak detection, beat completion,             *)
(* classification, transfer and trim (ecg_analyzer.cpp).  Positions are    *)
(* counted from 0 as in the code; samples[pos + 1] is samples_.at(pos).    *)
(***************************************************************************)
\* size_t arithmetic is unsigned and wraps (the width is scaled down from 64
\* bits; no stream of the model is that long)
SizeT == 65536
SizeAdd(x, y) == (x + y) % SizeT
SizeSub(x, y) == (x - y + SizeT) % SizeT

\* ecg_config::kRThreshold (2.5f) on the integer voltage scale of the model
kRThreshold == 2
\* voltages a sample can have: below, at and above the threshold
Voltages == 1..3

\* Sample(v, t): classification defaults to WaveType::kNormal.  The timestamp
\* is the sample's place in the acquisition order (steady_clock is monotonic).
Sample(v, t) == [voltage |-> v, timestamp |-> t, classification |-> "Normal"]

\* Beat(size_t r)
Beat(r) ==
  [r_pos |-> r, q_pos |-> 0, s_pos |-> 0, p_pos |-> 0, t_pos |-> 0,
   qrs_complete |-> FALSE, p_complete |-> FALSE, t_complete |-> FALSE]

\* ECGAnalyzer after construction: samples_, detected_beats_, last_transferred_pos_
NewAnalyzer ==
  [samples |-> <<>>, detected_beats |-> <<>>, last_transferred_pos |-> 0]

\* samples_.at(pos).voltage
VoltageAt(s, pos) == s[pos + 1].voltage

\* The peak test with a defect: a sample equal to the one after it passes.
IsPeakShape_Plateau(s, pos) ==
  /\ VoltageAt(s, pos) > VoltageAt(s, pos - 1)
  /\ VoltageAt(s, pos) >= VoltageAt(s, pos + 1)
  /\ VoltageAt(s, pos) > kRThreshold

\* the peak test of IsRPeak: higher than both neighbours and above threshold
IsPeakShape(s, pos) ==
  /\ VoltageAt(s, pos) > VoltageAt(s, pos - 1)
  /\ VoltageAt(s, pos) > VoltageAt(s, pos + 1)
  /\ VoltageAt(s, pos) > kRThreshold

\* IsRPeak with a defect: the refractory test is missing.
IsRPeak_NoRefractory(a, pos) ==
  IF pos = 0 \/ pos >= Len(a.samples) - 1
    THEN FALSE
    ELSE IsPeakShape(a.samples, pos)

\* IsRPeak(pos)
IsRPeak(a, pos) ==
  IF pos = 0 \/ pos >= Len(a.samples) - 1
    THEN FALSE
    ELSE LET is_peak == IsPeakShape(a.samples, pos)
             last_r == a.detected_beats[Len(a.detected_beats)].r_pos
         IN  IF is_peak /\ a.detected_beats # <<>>
                /\ SizeSub(pos, last_r) < kRefractoryPeriod
               THEN FALSE
               ELSE is_peak

\* DetectRPeaks: the sample before the newest one is tested
DetectRPeaks(a) ==
  LET check_position == Len(a.samples) - 2
  IN  IF IsRPeak(a, check_position)
        THEN [a EXCEPT !.detected_beats = Append(@, Beat(check_position))]
        ELSE a

\* the for loops of FindLowest / FindHighest from index i on
RECURSIVE ScanLowest(_, _, _, _)
ScanLowest(s, i, end, lowest_idx) ==
  IF i > end
    THEN lowest_idx
    ELSE ScanLowest(s, i + 1, end,
                    IF VoltageAt(s, i) < VoltageAt(s, lowest_idx) THEN i ELSE lowest_idx)

RECURSIVE ScanHighest(_, _, _, _)
ScanHighest(s, i, end, highest_idx) ==
  IF i > end
    THEN highest_idx
    ELSE ScanHighest(s, i + 1, end,
                     IF VoltageAt(s, i) > VoltageAt(s, highest_idx) THEN i ELSE highest_idx)

\* FindLowest(start, end): end is inclusive
FindLowest(s, start, end) ==
  IF start >= Len(s) \/ end >= Len(s) \/ start >= end
    THEN start
    ELSE ScanLowest(s, start + 1, end, start)

\* FindHighest(start, end): end is inclusive
FindHighest(s, start, end) ==
  IF start >= Len(s) \/ end >= Len(s) \/ start >= end
    THEN start
    ELSE ScanHighest(s, start + 1, end, start)

CanCompleteQRS(s, r_pos) ==
  r_pos >= kQSWindow /\ SizeAdd(r_pos, kQSWindow) < Len(s)

CanCompleteP(q_pos) == q_pos >= kPWindow

CanCompleteT(s, s_pos) == SizeAdd(s_pos, kTWindow) < Len(s)

\* the body of the loop of ProcessCompleteBeats for one beat: QRS, then P,
\* then T, each step seeing what the one before stored
CompleteQRS(s, beat) ==
  IF ~beat.qrs_complete /\ CanCompleteQRS(s, beat.r_pos)
    THEN [beat EXCEPT
            !.q_pos = FindLowest(s, SizeSub(beat.r_pos, kQSWindow), beat.r_pos),
            !.s_pos = FindLowest(s, SizeAdd(beat.r_pos, 1),
                                 SizeAdd(beat.r_pos, kQSWindow)),
            !.qrs_complete = TRUE]
    ELSE beat

\* the window of the P search ends at q_pos, inclusive
CompleteP(s, beat) ==
  IF beat.qrs_complete /\ ~beat.p_complete /\ CanCompleteP(beat.q_pos)
    THEN [beat EXCEPT
            !.p_pos = FindHighest(s, SizeSub(beat.q_pos, kPWindow), beat.q_pos),
            !.p_complete = TRUE]
    ELSE beat

CompleteT(s, beat) ==
  IF beat.qrs_complete /\ ~beat.t_complete /\ CanCompleteT(s, beat.s_pos)
    THEN [beat EXCEPT
            !.t_pos = FindHighest(s, SizeAdd(beat.s_pos, 1),
                                  SizeAdd(beat.s_pos, kTWindow)),
            !.t_complete = TRUE]
    ELSE beat

\* ProcessCompleteBeats
ProcessCompleteBeats(a) ==
  [a EXCEPT !.detected_beats =
     [k \in 1..Len(a.detected_beats) |->
        CompleteT(a.samples, CompleteP(a.samples,
                  CompleteQRS(a.samples, a.detected_beats[k])))]]

\* the assignments ApplyClassifications makes for one beat, in the order it
\* makes them: <<position, WaveType>>
BeatMarks(beat, size) ==
  (IF beat.r_pos < size THEN << <<beat.r_pos, "R">> >> ELSE <<>>)
  \o (IF beat.qrs_complete /\ beat.q_pos < size THEN << <<beat.q_pos, "Q">> >> ELSE <<>>)
  \o (IF beat.qrs_complete /\ beat.s_pos < size THEN << <<beat.s_pos, "S">> >> ELSE <<>>)
  \o (IF beat.p_complete /\ beat.p_pos < size THEN << <<beat.p_pos, "P">> >> ELSE <<>>)
  \o (IF beat.t_complete /\ beat.t_pos < size THEN << <<beat.t_pos, "T">> >> ELSE <<>>)

\* ... and for all beats, oldest beat first
RECURSIVE ClassificationMarks(_, _)
ClassificationMarks(beats, size) ==
  IF beats = <<>>
    THEN <<>>
    ELSE BeatMarks(Head(beats), size) \o ClassificationMarks(Tail(beats), size)

\* the assignments applied one after the other: a later one overwrites
RECURSIVE ApplyMarks(_, _)
ApplyMarks(s, marks) ==
  IF marks = <<>>
    THEN s
    ELSE ApplyMarks([s EXCEPT ![Head(marks)[1] + 1].classification = Head(marks)[2]],
                    Tail(marks))

\* ApplyClassifications
ApplyClassifications(a) ==
  [a EXCEPT !.samples =
     ApplyMarks(@, ClassificationMarks(a.detected_beats, Len(a.samples)))]

\* ProcessSample up to its call of TransferProcessedSamples
BeforeTransfer(a, sample) ==
  LET pushed == [a EXCEPT !.samples = Append(@, sample)]
  IN  ProcessCompleteBeats(IF Len(pushed.samples) >= 3 THEN DetectRPeaks(pushed)
                                                       ELSE pushed)

\* TransferProcessedSamples returns before ApplyClassifications
TransferReturnsEarly(a) ==
  \/ Len(a.samples) <= kTWindow
  \/ Len(a.samples) - kTWindow <= a.last_transferred_pos

\* Transfer loop with a defect: it starts at 0 instead of last_transferred_pos_.
TransferBatch_FromStart(a) ==
  SubSeq(ApplyClassifications(a).samples, 1, Len(a.samples) - kTWindow)

\* Transfer loop with a defect: it runs to the end of samples_ instead of
\* stopping kTWindow samples before it.
TransferBatch_NoLag(a) ==
  SubSeq(ApplyClassifications(a).samples, a.last_transferred_pos + 1, Len(a.samples))

\* the samples the transfer loop of TransferProcessedSamples hands to
\* buffer_classified_->AddData, in order
TransferBatch(a) ==
  SubSeq(ApplyClassifications(a).samples,
         a.last_transferred_pos + 1, Len(a.samples) - kTWindow)

\* "Adjust all beat indices"
RebasedBeat(beat, samples_to_remove) ==
  [beat EXCEPT
     !.r_pos = SizeSub(@, samples_to_remove),
     !.q_pos = IF beat.qrs_complete THEN SizeSub(@, samples_to_remove) ELSE @,
     !.s_pos = IF beat.qrs_complete THEN SizeSub(@, samples_to_remove) ELSE @,
     !.p_pos = IF beat.p_complete THEN SizeSub(@, samples_to_remove) ELSE @,
     !.t_pos = IF beat.t_complete THEN SizeSub(@, samples_to_remove) ELSE @]

\* TransferProcessedSamples with a defect: the transferred samples are never
\* erased from samples_.
AfterTransfer_KeepAll(a) ==
  [ApplyClassifications(a) EXCEPT !.last_transferred_pos = Len(a.samples) - kTWindow]

\* the analyzer after TransferProcessedSamples has transferred: positions
\* advanced, old samples erased and beat indices rebased
AfterTransfer(a) ==
  LET c == ApplyClassifications(a)
      safe_transfer_pos == Len(a.samples) - kTWindow
      samples_to_remove == safe_transfer_pos - kTWindow
  IN  IF safe_transfer_pos > kTWindow
        THEN [samples |-> SubSeq(c.samples, samples_to_remove + 1, Len(c.samples)),
              detected_beats |->
                [k \in 1..Len(c.detected_beats) |->
                   RebasedBeat(c.detected_beats[k], samples_to_remove)],
              last_transferred_pos |-> kTWindow]
        ELSE [c EXCEPT !.last_transferred_pos = safe_transfer_pos]

\* ProcessFinalData: ProcessCompleteBeats, ApplyClassifications
FinalAnalyzer(a) == ApplyClassifications(ProcessCompleteBeats(a))

\* ProcessFinalData: the samples of its transfer loop
FinalBatch(a) ==
  SubSeq(FinalAnalyzer(a).samples, a.last_transferred_pos + 1, Len(a.samples))

\* timestamps and tags of a list of assignments made on the samples s
StampedMarks(s, marks) ==
  {<<s[marks[k][1] + 1].timestamp, marks[k][2]>> : k \in 1..Len(marks)}

\* The history of an analyzer that has consumed nothing: no sample consumed or
\* handed to RB-class, no classification assigned, no R peak recorded, the
\* processing thread not finished.
NewHistory ==
  [consumed |-> <<>>, emitted |-> <<>>, tags |-> {}, r_stamps |-> <<>>, done |-> FALSE]

\* The state of the process when main() has built its objects and installed the
\* signal handlers (main.cpp), before Application::Start.
\* std::ofstream before open(): no file behind it
NoStream == [is_open |-> FALSE, header |-> FALSE, data |-> <<>>, flushed |-> 0]

\* FileManager::FileManager
NewFileManager ==
  /\ fm_pc = "new" /\ fm_writing = FALSE /\ fm_count = 0
  /\ csv_stream = NoStream /\ bin_stream = NoStream
  /\ first_timestamp = None /\ samples_written = 0 /\ fm_consumed = <<>>

\* AcquisitionLoop at its entry: start_time = now, expected_sample = 0
NewCadence ==
  /\ cad_pc = "head" /\ cad_now = 0 /\ cad_expected_sample = 0
  /\ cad_target_time = 0 /\ cad_sampled = {} /\ cad_twice = FALSE
  /\ cad_resync = None

InitPipe ==
  /\ running = FALSE /\ shutdown_requested = FALSE
  /\ main_pc = "Start" /\ path = "none" /\ sig_pc = "idle" /\ sigCount = 0
  /\ acq_pc = "off" /\ expected_sample = 0 /\ elapsed = FALSE
  /\ rbRaw = NewRingBuffer(BufferSize)
  /\ rbClass = NewRingBuffer(BufferSize)
  /\ processing = FALSE /\ an_pc = "off" /\ an_back = "check"
  /\ samples = <<>> /\ last_transferred_pos = 0 /\ xfer_i = 0
  /\ writing = FALSE /\ wr_pc = "off" /\ batch_count = 0
  /\ written = <<>> /\ files_open = FALSE
  /\ tcp_running = FALSE /\ tcp_pc = "off" /\ server_socket = FALSE
  /\ client_socket = NoSocket /\ new_client_socket = NoSocket
  /\ files_ready = FALSE /\ client_mutex = "none" /\ nclients = 0
  /\ sentTo = <<>> /\ closed_clients = {}
  /\ added = <<>> /\ overflow = FALSE
  /\ acq_joined = FALSE /\ an_stop_called = FALSE /\ an_joined = FALSE
  /\ wr_stop_called = FALSE /\ wr_joined = FALSE
  /\ tcp_touched = FALSE /\ tcp_stopped = FALSE
  /\ send_calls = 0 /\ app_stopped = FALSE /\ second_stops = {}
  /\ send_log = <<>>
  /\ ecg = NewAnalyzer /\ ecg_hist = NewHistory
  /\ NewFileManager
  /\ NewCadence

(***************************************************************************)
(* SpecRB: one ring buffer, one producer, one consumer, one Shutdown caller *)
(***************************************************************************)
\* the SpecRB variables around a fresh buffer of the given capacity
RBInit(size) ==
  /\ rb = NewRingBuffer(size)
  /\ mutex = "none"
  /\ p_pc = "idle" /\ c_pc = "idle" /\ s_pc = "idle"
  /\ c_ret = None /\ c_last = "none" /\ c_tick = FALSE
  /\ nextId = 1 /\ shutCalls = 0
  /\ accepted = <<>> /\ rejected = 0 /\ consumed = <<>>
  /\ unreadCount = 0 /\ addAfterConsume = FALSE
  /\ atShutdown = <<>> /\ postShut = <<>> /\ blockedAtShutdown = FALSE

\* a run with the given numbers of connecting clients and delivered signals
EnvInit(clients, signals) == clients_total = clients /\ signals_total = signals

InitRB ==
  /\ InitPipe /\ EnvInit(MaxClients, MaxSignals)
  /\ \E size \in 1..MaxCap : RBInit(size)

\* condition_variable::notify_one / notify_all with a single consumer
Notified == IF c_pc = "waiting" THEN "woken" ELSE c_pc

\* AddData, the block under lock_guard (the early return skips notify_one)
P_AddData ==
  /\ p_pc = "idle" /\ mutex = "none" /\ nextId <= MaxAdd
  /\ rb' = AddData(rb, nextId)
  /\ nextId' = nextId + 1
  /\ IF rb.shutdown
       THEN /\ p_pc' = "idle"
            /\ rejected' = rejected + 1
            /\ UNCHANGED <<accepted, unreadCount, addAfterConsume>>
       ELSE /\ p_pc' = "notify"
            /\ accepted' = Append(accepted, nextId)
            /\ unreadCount' = IF unreadCount = rb.max_size THEN unreadCount
                                                           ELSE unreadCount + 1
            /\ addAfterConsume' = (addAfterConsume \/ consumed # <<>>)
            /\ UNCHANGED rejected
  /\ UNCHANGED <<mutex, c_pc, s_pc, c_ret, c_last, c_tick, shutCalls, consumed,
                 atShutdown, postShut, blockedAtShutdown>>
  /\ UNCHANGED <<pipeVars, ecgVars, envVars, fileVars, cadVars>>

\* AddData with a defect: it returns without notify_one.
P_Notify_Lost ==
  /\ p_pc = "notify"
  /\ p_pc' = "idle"
  /\ UNCHANGED <<rb, mutex, c_pc, s_pc, c_ret, c_last, c_tick, nextId, shutCalls,
                 accepted, rejected, consumed, unreadCount, addAfterConsume,
                 atShutdown, postShut, blockedAtShutdown>>
  /\ UNCHANGED <<pipeVars, ecgVars, envVars, fileVars, cadVars>>

\* AddData, data_added_.notify_one() after the lock is released
P_Notify ==
  /\ p_pc = "notify"
  /\ p_pc' = "idle"
  /\ c_pc' = Notified
  /\ UNCHANGED <<rb, mutex, s_pc, c_ret, c_last, c_tick, nextId, shutCalls,
                 accepted, rejected, consumed, unreadCount, addAfterConsume,
                 atShutdown, postShut, blockedAtShutdown>>
  /\ UNCHANGED <<pipeVars, ecgVars, envVars, fileVars, cadVars>>

\* History kept when a consumer call returns r.
Returned(r, call) ==
  /\ c_ret' = r
  /\ c_last' = call
  /\ c_tick' = ~c_tick
  /\ consumed' = IF r = None THEN consumed ELSE consumed \o r
  /\ unreadCount' = IF r = None THEN unreadCount ELSE unreadCount - 1
  /\ postShut' = IF call = "Consume" /\ rb.shutdown /\ Len(postShut) < rb.max_size + 2
                   THEN Append(postShut, r) ELSE postShut

\* Consume: the lock is taken (on entry, or by wait on wake-up), the predicate
\* holds, the call returns and the lock is released.
C_ConsumeReturn ==
  /\ c_pc \in {"idle", "woken"} /\ mutex = "none"
  /\ ConsumeReady(rb)
  /\ rb' = ConsumeState(rb)
  /\ Returned(ConsumeResult(rb), "Consume")
  /\ c_pc' = "idle"
  /\ UNCHANGED <<mutex, p_pc, s_pc, nextId, shutCalls, accepted, rejected,
                 addAfterConsume, atShutdown, blockedAtShutdown>>
  /\ UNCHANGED <<pipeVars, ecgVars, envVars, fileVars, cadVars>>

\* Consume: the lock is taken and the predicate is false; the consumer still
\* holds the lock and is about to block.
C_ConsumeBlock ==
  /\ c_pc \in {"idle", "woken"} /\ mutex = "none"
  /\ ~ConsumeReady(rb)
  /\ mutex' = "c"
  /\ c_pc' = "towait"
  /\ UNCHANGED <<rb, p_pc, s_pc, c_ret, c_last, c_tick, nextId, shutCalls,
                 accepted, rejected, consumed, unreadCount, addAfterConsume,
                 atShutdown, postShut, blockedAtShutdown>>
  /\ UNCHANGED <<pipeVars, ecgVars, envVars, fileVars, cadVars>>

\* condition_variable::wait releases the lock and blocks, atomically
C_Wait ==
  /\ c_pc = "towait"
  /\ mutex' = "none"
  /\ c_pc' = "waiting"
  /\ UNCHANGED <<rb, p_pc, s_pc, c_ret, c_last, c_tick, nextId, shutCalls,
                 accepted, rejected, consumed, unreadCount, addAfterConsume,
                 atShutdown, postShut, blockedAtShutdown>>
  /\ UNCHANGED <<pipeVars, ecgVars, envVars, fileVars, cadVars>>

\* a spurious wake-up of the waiting consumer
C_Spurious ==
  /\ c_pc = "waiting"
  /\ c_pc' = "woken"
  /\ UNCHANGED <<rb, mutex, p_pc, s_pc, c_ret, c_last, c_tick, nextId, shutCalls,
                 accepted, rejected, consumed, unreadCount, addAfterConsume,
                 atShutdown, postShut, blockedAtShutdown>>
  /\ UNCHANGED <<pipeVars, ecgVars, envVars, fileVars, cadVars>>

\* TryConsume, whole call under lock_guard
C_TryConsume ==
  /\ c_pc = "idle" /\ mutex = "none"
  /\ rb' = TryConsumeState(rb)
  /\ Returned(TryConsumeResult(rb), "TryConsume")
  /\ UNCHANGED <<mutex, p_pc, c_pc, s_pc, nextId, shutCalls, accepted, rejected,
                 addAfterConsume, atShutdown, blockedAtShutdown>>
  /\ UNCHANGED <<pipeVars, ecgVars, envVars, fileVars, cadVars>>

\* Shutdown variant with a defect: the flag is stored without taking the lock.
S_Shutdown_NoLock ==
  /\ s_pc = "idle" /\ shutCalls < MaxShutdowns
  /\ rb' = ShutdownState(rb)
  /\ s_pc' = "notify"
  /\ shutCalls' = shutCalls + 1
  /\ atShutdown' = IF rb.shutdown THEN atShutdown ELSE Contents(rb)
  /\ blockedAtShutdown' = (blockedAtShutdown \/
                            (~rb.shutdown /\ Empty(rb) /\ c_pc \in {"towait", "waiting"}))
  /\ UNCHANGED <<mutex, p_pc, c_pc, c_ret, c_last, c_tick, nextId,
                 accepted, rejected, consumed, unreadCount, addAfterConsume, postShut>>
  /\ UNCHANGED <<pipeVars, ecgVars, envVars, fileVars, cadVars>>

\* Shutdown, the block under lock_guard
S_Shutdown ==
  /\ s_pc = "idle" /\ mutex = "none" /\ shutCalls < MaxShutdowns
  /\ rb' = ShutdownState(rb)
  /\ s_pc' = "notify"
  /\ shutCalls' = shutCalls + 1
  /\ atShutdown' = IF rb.shutdown THEN atShutdown ELSE Contents(rb)
  /\ blockedAtShutdown' = (blockedAtShutdown \/
                            (~rb.shutdown /\ Empty(rb) /\ c_pc \in {"towait", "waiting"}))
  /\ UNCHANGED <<mutex, p_pc, c_pc, c_ret, c_last, c_tick, nextId,
                 accepted, rejected, consumed, unreadCount, addAfterConsume, postShut>>
  /\ UNCHANGED <<pipeVars, ecgVars, envVars, fileVars, cadVars>>

\* Shutdown, data_added_.notify_all() after the lock is released
S_NotifyAll ==
  /\ s_pc = "notify"
  /\ s_pc' = "idle"
  /\ c_pc' = Notified
  /\ UNCHANGED <<rb, mutex, p_pc, c_ret, c_last, c_tick, nextId, shutCalls,
                 accepted, rejected, consumed, unreadCount, addAfterConsume,
                 atShutdown, postShut, blockedAtShutdown>>
  /\ UNCHANGED <<pipeVars, ecgVars, envVars, fileVars, cadVars>>

NextRB ==
  \/ P_AddData
  \/ P_Notify
  \/ C_ConsumeReturn
  \/ C_ConsumeBlock
  \/ C_Wait
  \/ C_Spurious
  \/ C_TryConsume
  \/ S_Shutdown
  \/ S_NotifyAll

SpecRB == InitRB /\ [][NextRB]_vars

\* A thread that is inside a call keeps running: the consumer re-takes the lock
\* after a wake-up and blocks after a false predicate, and both notifiers reach
\* their notify.  Starting a call is not forced, and neither is a spurious wake-up.
C_Progress == c_pc # "idle" /\ (C_ConsumeReturn \/ C_ConsumeBlock \/ C_Wait)

LiveRB ==
  /\ SpecRB
  /\ WF_vars(C_Progress)
  /\ WF_vars(P_Notify)
  /\ WF_vars(S_NotifyAll)

(***************************************************************************)
(* Spec: the whole process.  Ring-buffer calls are single steps here (each  *)
(* is one critical section of mutex_, checked in SpecRB); a blocking        *)
(* Consume is a step enabled when its wait predicate holds.  Samples are    *)
(* identified by their position in the acquisition order.  Logging is left  *)
(* out.                                                                     *)
(***************************************************************************)

(***************************************************************************)
(* Signal handler: SignalHandler::HandleSignal -> Application::RequestShutdown *)
(***************************************************************************)
\* SIGINT / SIGTERM is delivered (handlers are installed before Start):
\* shutdown_requested_.store(true)
RequestShutdown_SetRequested ==
  /\ sig_pc = "idle"
  /\ sigCount < signals_total
  /\ sigCount' = sigCount + 1
  /\ shutdown_requested' = TRUE
  /\ sig_pc' = "mid"
  /\ UNCHANGED <<running, main_pc, path, acq_pc, expected_sample, elapsed, rbRaw,
                 rbClass, processing, an_pc, an_back, samples, last_transferred_pos,
                 xfer_i, writing, wr_pc, batch_count, written, files_open, tcp_running,
                 tcp_pc, server_socket, client_socket, new_client_socket, files_ready,
                 client_mutex, nclients, sentTo, closed_clients, added, overflow,
                 acq_joined, an_stop_called, an_joined, wr_stop_called, wr_joined,
                 tcp_touched, tcp_stopped, send_calls, app_stopped, second_stops>>
  /\ UNCHANGED <<rbVars, ecgVars, envVars, send_log, fileVars, cadVars>>

\* running_.store(false)
RequestShutdown_ClearRunning ==
  /\ sig_pc = "mid"
  /\ running' = FALSE
  /\ sig_pc' = "idle"
  /\ UNCHANGED <<shutdown_requested, main_pc, path, sigCount, acq_pc, expected_sample,
                 elapsed, rbRaw, rbClass, processing, an_pc, an_back, samples,
                 last_transferred_pos, xfer_i, writing, wr_pc, batch_count, written,
                 files_open, tcp_running, tcp_pc, server_socket, client_socket,
                 new_client_socket, files_ready, client_mutex, nclients, sentTo,
                 closed_clients, added, overflow, acq_joined, an_stop_called, an_joined,
                 wr_stop_called, wr_joined, tcp_touched, tcp_stopped, send_calls,
                 app_stopped, second_stops>>
  /\ UNCHANGED <<rbVars, ecgVars, envVars, send_log, fileVars, cadVars>>

(***************************************************************************)
(* Main thread: main -> Application::Start -> Application::Run             *)
(***************************************************************************)
\* Application::Start: the data source is available, FileManager::Init opens both
\* files and TCPFileServer::Init opens the listening socket; running_ = true.
\* When a component fails to initialise Start returns false and main exits.
Application_Start ==
  /\ main_pc = "Start"
  /\ \E ok \in BOOLEAN :
       IF ok
         THEN /\ files_open' = TRUE
              /\ server_socket' = TRUE
              /\ running' = TRUE
              /\ main_pc' = "Run"
         ELSE /\ main_pc' = "Exit"
              /\ UNCHANGED <<files_open, server_socket, running>>
  /\ UNCHANGED <<shutdown_requested, path, sig_pc, sigCount, acq_pc, expected_sample,
                 elapsed, rbRaw, rbClass, processing, an_pc, an_back, samples,
                 last_transferred_pos, xfer_i, writing, wr_pc, batch_count, written,
                 tcp_running, tcp_pc, client_socket, new_client_socket, files_ready,
                 client_mutex, nclients, sentTo, closed_clients, added, overflow,
                 acq_joined, an_stop_called, an_joined, wr_stop_called, wr_joined,
                 tcp_touched, tcp_stopped, send_calls, app_stopped, second_stops>>
  /\ UNCHANGED <<rbVars, ecgVars, envVars, send_log, fileVars, cadVars>>

\* Application::Run entry: return at once when running_ is false, otherwise
\* start the acquisition thread.
Application_Run ==
  /\ main_pc = "Run"
  /\ IF ~running
       THEN /\ main_pc' = "Returned"
            /\ UNCHANGED acq_pc
       ELSE /\ acq_pc' = "head"
            /\ main_pc' = "AnalyzerRun"
  /\ UNCHANGED <<running, shutdown_requested, path, sig_pc, sigCount, expected_sample,
                 elapsed, rbRaw, rbClass, processing, an_pc, an_back, samples,
                 last_transferred_pos, xfer_i, writing, wr_pc, batch_count, written,
                 files_open, tcp_running, tcp_pc, server_socket, client_socket,
                 new_client_socket, files_ready, client_mutex, nclients, sentTo,
                 closed_clients, added, overflow, acq_joined, an_stop_called, an_joined,
                 wr_stop_called, wr_joined, tcp_touched, tcp_stopped, send_calls,
                 app_stopped, second_stops>>
  /\ UNCHANGED <<rbVars, ecgVars, envVars, send_log, fileVars, cadVars>>

\* ECGAnalyzer::Run
ECGAnalyzer_Run ==
  /\ main_pc = "AnalyzerRun"
  /\ processing' = TRUE
  /\ an_pc' = "check"
  /\ main_pc' = "WriterRun"
  /\ UNCHANGED <<running, shutdown_requested, path, sig_pc, sigCount, acq_pc,
                 expected_sample, elapsed, rbRaw, rbClass, an_back, samples,
                 last_transferred_pos, xfer_i, writing, wr_pc, batch_count, written,
                 files_open, tcp_running, tcp_pc, server_socket, client_socket,
                 new_client_socket, files_ready, client_mutex, nclients, sentTo,
                 closed_clients, added, overflow, acq_joined, an_stop_called, an_joined,
                 wr_stop_called, wr_joined, tcp_touched, tcp_stopped, send_calls,
                 app_stopped, second_stops>>
  /\ UNCHANGED <<rbVars, ecgVars, envVars, send_log, fileVars, cadVars>>

\* FileManager::Run
FileManager_Run ==
  /\ main_pc = "WriterRun"
  /\ writing' = TRUE
  /\ wr_pc' = "wcheck"
  /\ main_pc' = "TcpRun"
  /\ UNCHANGED <<running, shutdown_requested, path, sig_pc, sigCount, acq_pc,
                 expected_sample, elapsed, rbRaw, rbClass, processing, an_pc, an_back,
                 samples, last_transferred_pos, xfer_i, batch_count, written, files_open,
                 tcp_running, tcp_pc, server_socket, client_socket, new_client_socket,
                 files_ready, client_mutex, nclients, sentTo, closed_clients, added,
                 overflow, acq_joined, an_stop_called, an_joined, wr_stop_called,
                 wr_joined, tcp_touched, tcp_stopped, send_calls, app_stopped,
                 second_stops>>
  /\ UNCHANGED <<rbVars, ecgVars, envVars, send_log, fileVars, cadVars>>

\* TCPFileServer::Run (running_ is false on the only call)
TCPFileServer_Run ==
  /\ main_pc = "TcpRun"
  /\ IF tcp_running
       THEN UNCHANGED <<tcp_running, tcp_pc>>
       ELSE /\ tcp_running' = TRUE
            /\ tcp_pc' = "head"
  /\ main_pc' = "Wait"
  /\ UNCHANGED <<running, shutdown_requested, path, sig_pc, sigCount, acq_pc,
                 expected_sample, elapsed, rbRaw, rbClass, processing, an_pc, an_back,
                 samples, last_transferred_pos, xfer_i, writing, wr_pc, batch_count,
                 written, files_open, server_socket, client_socket, new_client_socket,
                 files_ready, client_mutex, nclients, sentTo, closed_clients, added,
                 overflow, acq_joined, an_stop_called, an_joined, wr_stop_called,
                 wr_joined, tcp_touched, tcp_stopped, send_calls, app_stopped,
                 second_stops>>
  /\ UNCHANGED <<rbVars, ecgVars, envVars, send_log, fileVars, cadVars>>

\* while (running_ && !shutdown_requested_) sleep: the loop is left
Application_WaitLoop ==
  /\ main_pc = "Wait"
  /\ ~(running /\ ~shutdown_requested)
  /\ main_pc' = "Decide"
  /\ UNCHANGED <<running, shutdown_requested, path, sig_pc, sigCount, acq_pc,
                 expected_sample, elapsed, rbRaw, rbClass, processing, an_pc, an_back,
                 samples, last_transferred_pos, xfer_i, writing, wr_pc, batch_count,
                 written, files_open, tcp_running, tcp_pc, server_socket, client_socket,
                 new_client_socket, files_ready, client_mutex, nclients, sentTo,
                 closed_clients, added, overflow, acq_joined, an_stop_called, an_joined,
                 wr_stop_called, wr_joined, tcp_touched, tcp_stopped, send_calls,
                 app_stopped, second_stops>>
  /\ UNCHANGED <<rbVars, ecgVars, envVars, send_log, fileVars, cadVars>>

\* if (shutdown_requested_) GracefulShutdown() else the normal end of run
Application_Decide ==
  /\ main_pc = "Decide"
  /\ IF shutdown_requested
       THEN /\ path' = "graceful"
            /\ main_pc' = "GsStore"
       ELSE /\ path' = "normal"
            /\ main_pc' = "JoinAcq"
  /\ UNCHANGED <<running, shutdown_requested, sig_pc, sigCount, acq_pc, expected_sample,
                 elapsed, rbRaw, rbClass, processing, an_pc, an_back, samples,
                 last_transferred_pos, xfer_i, writing, wr_pc, batch_count, written,
                 files_open, tcp_running, tcp_pc, server_socket, client_socket,
                 new_client_socket, files_ready, client_mutex, nclients, sentTo,
                 closed_clients, added, overflow, acq_joined, an_stop_called, an_joined,
                 wr_stop_called, wr_joined, tcp_touched, tcp_stopped, send_calls,
                 app_stopped, second_stops>>
  /\ UNCHANGED <<rbVars, ecgVars, envVars, send_log, fileVars, cadVars>>

\* GracefulShutdown step 1: running_.store(false)
GracefulShutdown_ClearRunning ==
  /\ main_pc = "GsStore"
  /\ running' = FALSE
  /\ main_pc' = "JoinAcq"
  /\ UNCHANGED <<shutdown_requested, path, sig_pc, sigCount, acq_pc, expected_sample,
                 elapsed, rbRaw, rbClass, processing, an_pc, an_back, samples,
                 last_transferred_pos, xfer_i, writing, wr_pc, batch_count, written,
                 files_open, tcp_running, tcp_pc, server_socket, client_socket,
                 new_client_socket, files_ready, client_mutex, nclients, sentTo,
                 closed_clients, added, overflow, acq_joined, an_stop_called, an_joined,
                 wr_stop_called, wr_joined, tcp_touched, tcp_stopped, send_calls,
                 app_stopped, second_stops>>
  /\ UNCHANGED <<rbVars, ecgVars, envVars, send_log, fileVars, cadVars>>

\* The stop sequence with a defect: it goes on to ECGAnalyzer::Stop without
\* waiting for the acquisition thread to end.
Application_JoinAcquisition_NoWait ==
  /\ main_pc = "JoinAcq"
  /\ acq_joined' = TRUE
  /\ main_pc' = "AnStop"
  /\ UNCHANGED <<running, shutdown_requested, path, sig_pc, sigCount, acq_pc,
                 expected_sample, elapsed, rbRaw, rbClass, processing, an_pc, an_back,
                 samples, last_transferred_pos, xfer_i, writing, wr_pc, batch_count,
                 written, files_open, tcp_running, tcp_pc, server_socket, client_socket,
                 new_client_socket, files_ready, client_mutex, nclients, sentTo,
                 closed_clients, added, overflow, an_stop_called, an_joined,
                 wr_stop_called, wr_joined, tcp_touched, tcp_stopped, send_calls,
                 app_stopped, second_stops>>
  /\ UNCHANGED <<rbVars, ecgVars, envVars, send_log, fileVars, cadVars>>

\* acquisition_thread_.join() returns once AcquisitionLoop has returned
Application_JoinAcquisition ==
  /\ main_pc = "JoinAcq"
  /\ acq_pc = "done"
  /\ acq_joined' = TRUE
  /\ main_pc' = "AnStop"
  /\ UNCHANGED <<running, shutdown_requested, path, sig_pc, sigCount, acq_pc,
                 expected_sample, elapsed, rbRaw, rbClass, processing, an_pc, an_back,
                 samples, last_transferred_pos, xfer_i, writing, wr_pc, batch_count,
                 written, files_open, tcp_running, tcp_pc, server_socket, client_socket,
                 new_client_socket, files_ready, client_mutex, nclients, sentTo,
                 closed_clients, added, overflow, an_stop_called, an_joined,
                 wr_stop_called, wr_joined, tcp_touched, tcp_stopped, send_calls,
                 app_stopped, second_stops>>
  /\ UNCHANGED <<rbVars, ecgVars, envVars, send_log, fileVars, cadVars>>

\* ECGAnalyzer::Stop: processing_ = false
ECGAnalyzer_Stop ==
  /\ main_pc = "AnStop"
  /\ an_stop_called' = TRUE
  /\ processing' = FALSE
  /\ main_pc' = "AnStopShutdown"
  /\ UNCHANGED <<running, shutdown_requested, path, sig_pc, sigCount, acq_pc,
                 expected_sample, elapsed, rbRaw, rbClass, an_pc, an_back, samples,
                 last_transferred_pos, xfer_i, writing, wr_pc, batch_count, written,
                 files_open, tcp_running, tcp_pc, server_socket, client_socket,
                 new_client_socket, files_ready, client_mutex, nclients, sentTo,
                 closed_clients, added, overflow, acq_joined, an_joined, wr_stop_called,
                 wr_joined, tcp_touched, tcp_stopped, send_calls, app_stopped,
                 second_stops>>
  /\ UNCHANGED <<rbVars, ecgVars, envVars, send_log, fileVars, cadVars>>

\* ECGAnalyzer::Stop: buffer_raw_->Shutdown()
ECGAnalyzer_StopShutdown ==
  /\ main_pc = "AnStopShutdown"
  /\ rbRaw' = ShutdownState(rbRaw)
  /\ main_pc' = "JoinAn"
  /\ UNCHANGED <<running, shutdown_requested, path, sig_pc, sigCount, acq_pc,
                 expected_sample, elapsed, rbClass, processing, an_pc, an_back, samples,
                 last_transferred_pos, xfer_i, writing, wr_pc, batch_count, written,
                 files_open, tcp_running, tcp_pc, server_socket, client_socket,
                 new_client_socket, files_ready, client_mutex, nclients, sentTo,
                 closed_clients, added, overflow, acq_joined, an_stop_called, an_joined,
                 wr_stop_called, wr_joined, tcp_touched, tcp_stopped, send_calls,
                 app_stopped, second_stops>>
  /\ UNCHANGED <<rbVars, ecgVars, envVars, send_log, fileVars, cadVars>>

\* ECGAnalyzer::Stop: processing_thread_.join()
ECGAnalyzer_StopJoin ==
  /\ main_pc = "JoinAn"
  /\ an_pc = "done"
  /\ an_joined' = TRUE
  /\ main_pc' = "WrStop"
  /\ UNCHANGED <<running, shutdown_requested, path, sig_pc, sigCount, acq_pc,
                 expected_sample, elapsed, rbRaw, rbClass, processing, an_pc, an_back,
                 samples, last_transferred_pos, xfer_i, writing, wr_pc, batch_count,
                 written, files_open, tcp_running, tcp_pc, server_socket, client_socket,
                 new_client_socket, files_ready, client_mutex, nclients, sentTo,
                 closed_clients, added, overflow, acq_joined, an_stop_called,
                 wr_stop_called, wr_joined, tcp_touched, tcp_stopped, send_calls,
                 app_stopped, second_stops>>
  /\ UNCHANGED <<rbVars, ecgVars, envVars, send_log, fileVars, cadVars>>

\* FileManager::Stop: writing_ = false
FileManager_Stop ==
  /\ main_pc = "WrStop"
  /\ wr_stop_called' = TRUE
  /\ writing' = FALSE
  /\ main_pc' = "JoinWr"
  /\ UNCHANGED <<running, shutdown_requested, path, sig_pc, sigCount, acq_pc,
                 expected_sample, elapsed, rbRaw, rbClass, processing, an_pc, an_back,
                 samples, last_transferred_pos, xfer_i, wr_pc, batch_count, written,
                 files_open, tcp_running, tcp_pc, server_socket, client_socket,
                 new_client_socket, files_ready, client_mutex, nclients, sentTo,
                 closed_clients, added, overflow, acq_joined, an_stop_called, an_joined,
                 wr_joined, tcp_touched, tcp_stopped, send_calls, app_stopped,
                 second_stops>>
  /\ UNCHANGED <<rbVars, ecgVars, envVars, send_log, fileVars, cadVars>>

\* FileManager::Stop: writing_thread_.join(), then Close() closes both streams.
\* GracefulShutdown asks HasConnectedClient first, the normal end does not.
FileManager_StopJoinClose ==
  /\ main_pc = "JoinWr"
  /\ wr_pc = "done"
  /\ wr_joined' = TRUE
  /\ files_open' = FALSE
  /\ main_pc' = IF path = "graceful" THEN "HasClient" ELSE "SendLock"
  /\ UNCHANGED <<running, shutdown_requested, path, sig_pc, sigCount, acq_pc,
                 expected_sample, elapsed, rbRaw, rbClass, processing, an_pc, an_back,
                 samples, last_transferred_pos, xfer_i, writing, wr_pc, batch_count,
                 written, tcp_running, tcp_pc, server_socket, client_socket,
                 new_client_socket, files_ready, client_mutex, nclients, sentTo,
                 closed_clients, added, overflow, acq_joined, an_stop_called, an_joined,
                 wr_stop_called, tcp_touched, tcp_stopped, send_calls, app_stopped,
                 second_stops>>
  /\ UNCHANGED <<rbVars, ecgVars, envVars, send_log, fileVars, cadVars>>

(***************************************************************************)
(* TCPFileServer::SendAvailableFiles, called by the main thread and by the *)
(* server thread                                                           *)
(***************************************************************************)
\* What the body of SendAvailableFiles can do once a client is registered:
\*   "no_files"     GetAvailableFiles is empty: SendError, the client stays registered
\*   "header_fail"  send of the FILES header fails: the client is closed
\*   "file_fail"    SendFile fails: the client is closed
\*   "sent"         every file is sent: the client is closed
SendOutcomes == {"no_files", "header_fail", "file_fail", "sent"}

\* lock(client_mutex_); files_ready_ = true; return (unlocking) when no client
\* is registered
SendAvailableFiles_Lock(who) ==
  /\ client_mutex = "none"
  /\ files_ready' = TRUE
  /\ client_mutex' = IF client_socket = NoSocket THEN "none" ELSE who
  /\ send_log' = IF who = "main"
                   THEN Append(send_log, [client |-> client_socket, accepted |-> nclients])
                   ELSE send_log

\* SendAvailableFiles without the close of the client after a transfer
SendAvailableFiles_Send_KeepOpen(who) ==
  /\ client_mutex = who
  /\ \E outcome \in SendOutcomes :
       /\ sentTo' = IF outcome \in {"file_fail", "sent"}
                      THEN Append(sentTo, client_socket) ELSE sentTo
       /\ client_socket' = client_socket
       /\ closed_clients' = closed_clients
  /\ client_mutex' = "none"

\* the rest of SendAvailableFiles, under client_mutex_
SendAvailableFiles_Send(who) ==
  /\ client_mutex = who
  /\ \E outcome \in SendOutcomes :
       /\ sentTo' = IF outcome \in {"file_fail", "sent"}
                      THEN Append(sentTo, client_socket) ELSE sentTo
       /\ client_socket' = IF outcome = "no_files" THEN client_socket ELSE NoSocket
       /\ closed_clients' = IF outcome = "no_files" THEN closed_clients
                            ELSE closed_clients \cup {client_socket}
  /\ client_mutex' = "none"

\* GracefulShutdown step 4: if (tcp_server_->HasConnectedClient())
Application_HasConnectedClient ==
  /\ main_pc = "HasClient"
  /\ client_mutex = "none"
  /\ tcp_touched' = TRUE
  /\ main_pc' = IF client_socket # NoSocket THEN "SendLock" ELSE "TcpStop"
  /\ UNCHANGED <<running, shutdown_requested, path, sig_pc, sigCount, acq_pc,
                 expected_sample, elapsed, rbRaw, rbClass, processing, an_pc, an_back,
                 samples, last_transferred_pos, xfer_i, writing, wr_pc, batch_count,
                 written, files_open, tcp_running, tcp_pc, server_socket, client_socket,
                 new_client_socket, files_ready, client_mutex, nclients, sentTo,
                 closed_clients, added, overflow, acq_joined, an_stop_called, an_joined,
                 wr_stop_called, wr_joined, tcp_stopped, send_calls, app_stopped,
                 second_stops>>
  /\ UNCHANGED <<rbVars, ecgVars, envVars, send_log, fileVars, cadVars>>

\* tcp_server_->SendAvailableFiles() called by the Application
Application_SendAvailableFiles ==
  /\ main_pc = "SendLock"
  /\ SendAvailableFiles_Lock("main")
  /\ tcp_touched' = TRUE
  /\ send_calls' = send_calls + 1
  /\ main_pc' = IF client_socket = NoSocket THEN "TcpStop" ELSE "SendBody"
  /\ UNCHANGED <<running, shutdown_requested, path, sig_pc, sigCount, acq_pc,
                 expected_sample, elapsed, rbRaw, rbClass, processing, an_pc, an_back,
                 samples, last_transferred_pos, xfer_i, writing, wr_pc, batch_count,
                 written, files_open, tcp_running, tcp_pc, server_socket, client_socket,
                 new_client_socket, nclients, sentTo, closed_clients, added, overflow,
                 acq_joined, an_stop_called, an_joined, wr_stop_called, wr_joined,
                 tcp_stopped, app_stopped, second_stops>>
  /\ UNCHANGED <<rbVars, ecgVars, envVars, fileVars, cadVars>>

\* ... its body, with a client registered
Application_SendFiles ==
  /\ main_pc = "SendBody"
  /\ SendAvailableFiles_Send("main")
  /\ main_pc' = "TcpStop"
  /\ UNCHANGED <<running, shutdown_requested, path, sig_pc, sigCount, acq_pc,
                 expected_sample, elapsed, rbRaw, rbClass, processing, an_pc, an_back,
                 samples, last_transferred_pos, xfer_i, writing, wr_pc, batch_count,
                 written, files_open, tcp_running, tcp_pc, server_socket,
                 new_client_socket, files_ready, nclients, added, overflow, acq_joined,
                 an_stop_called, an_joined, wr_stop_called, wr_joined, tcp_touched,
                 tcp_stopped, send_calls, app_stopped, second_stops>>
  /\ UNCHANGED <<rbVars, ecgVars, envVars, send_log, fileVars, cadVars>>

\* TCPFileServer::Stop: return when not running, else running_ = false
TCPFileServer_Stop ==
  /\ main_pc = "TcpStop"
  /\ tcp_touched' = TRUE
  /\ IF ~tcp_running
       THEN /\ tcp_stopped' = TRUE
            /\ main_pc' = "Returned"
            /\ UNCHANGED tcp_running
       ELSE /\ tcp_running' = FALSE
            /\ main_pc' = "TcpStopClient"
            /\ UNCHANGED tcp_stopped
  /\ UNCHANGED <<running, shutdown_requested, path, sig_pc, sigCount, acq_pc,
                 expected_sample, elapsed, rbRaw, rbClass, processing, an_pc, an_back,
                 samples, last_transferred_pos, xfer_i, writing, wr_pc, batch_count,
                 written, files_open, tcp_pc, server_socket, client_socket,
                 new_client_socket, files_ready, client_mutex, nclients, sentTo,
                 closed_clients, added, overflow, acq_joined, an_stop_called, an_joined,
                 wr_stop_called, wr_joined, send_calls, app_stopped, second_stops>>
  /\ UNCHANGED <<rbVars, ecgVars, envVars, send_log, fileVars, cadVars>>

\* TCPFileServer::Stop: close the registered client under client_mutex_
TCPFileServer_StopCloseClient ==
  /\ main_pc = "TcpStopClient"
  /\ client_mutex = "none"
  /\ closed_clients' = IF client_socket # NoSocket
                         THEN closed_clients \cup {client_socket} ELSE closed_clients
  /\ client_socket' = NoSocket
  /\ main_pc' = "TcpStopServer"
  /\ UNCHANGED <<running, shutdown_requested, path, sig_pc, sigCount, acq_pc,
                 expected_sample, elapsed, rbRaw, rbClass, processing, an_pc, an_back,
                 samples, last_transferred_pos, xfer_i, writing, wr_pc, batch_count,
                 written, files_open, tcp_running, tcp_pc, server_socket,
                 new_client_socket, files_ready, client_mutex, nclients, sentTo, added,
                 overflow, acq_joined, an_stop_called, an_joined, wr_stop_called,
                 wr_joined, tcp_touched, tcp_stopped, send_calls, app_stopped,
                 second_stops>>
  /\ UNCHANGED <<rbVars, ecgVars, envVars, send_log, fileVars, cadVars>>

\* TCPFileServer::Stop: shutdown and close the listening socket
TCPFileServer_StopCloseServer ==
  /\ main_pc = "TcpStopServer"
  /\ server_socket' = FALSE
  /\ main_pc' = "TcpJoin"
  /\ UNCHANGED <<running, shutdown_requested, path, sig_pc, sigCount, acq_pc,
                 expected_sample, elapsed, rbRaw, rbClass, processing, an_pc, an_back,
                 samples, last_transferred_pos, xfer_i, writing, wr_pc, batch_count,
                 written, files_open, tcp_running, tcp_pc, client_socket,
                 new_client_socket, files_ready, client_mutex, nclients, sentTo,
                 closed_clients, added, overflow, acq_joined, an_stop_called, an_joined,
                 wr_stop_called, wr_joined, tcp_touched, tcp_stopped, send_calls,
                 app_stopped, second_stops>>
  /\ UNCHANGED <<rbVars, ecgVars, envVars, send_log, fileVars, cadVars>>

\* TCPFileServer::Stop: server_thread_.join(); Stop and then Run return
TCPFileServer_StopJoin ==
  /\ main_pc = "TcpJoin"
  /\ tcp_pc = "done"
  /\ tcp_stopped' = TRUE
  /\ main_pc' = "Returned"
  /\ UNCHANGED <<running, shutdown_requested, path, sig_pc, sigCount, acq_pc,
                 expected_sample, elapsed, rbRaw, rbClass, processing, an_pc, an_back,
                 samples, last_transferred_pos, xfer_i, writing, wr_pc, batch_count,
                 written, files_open, tcp_running, tcp_pc, server_socket, client_socket,
                 new_client_socket, files_ready, client_mutex, nclients, sentTo,
                 closed_clients, added, overflow, acq_joined, an_stop_called, an_joined,
                 wr_stop_called, wr_joined, tcp_touched, send_calls, app_stopped,
                 second_stops>>
  /\ UNCHANGED <<rbVars, ecgVars, envVars, send_log, fileVars, cadVars>>

(***************************************************************************)
(* Server thread: TCPFileServer::ServerLoop                                *)
(***************************************************************************)
\* while (running_.load())
ServerLoop_Head ==
  /\ tcp_pc = "head"
  /\ tcp_pc' = IF tcp_running THEN "accept" ELSE "done"
  /\ UNCHANGED <<running, shutdown_requested, main_pc, path, sig_pc, sigCount, acq_pc,
                 expected_sample, elapsed, rbRaw, rbClass, processing, an_pc, an_back,
                 samples, last_transferred_pos, xfer_i, writing, wr_pc, batch_count,
                 written, files_open, tcp_running, server_socket, client_socket,
                 new_client_socket, files_ready, client_mutex, nclients, sentTo,
                 closed_clients, added, overflow, acq_joined, an_stop_called, an_joined,
                 wr_stop_called, wr_joined, tcp_touched, tcp_stopped, send_calls,
                 app_stopped, second_stops>>
  /\ UNCHANGED <<rbVars, ecgVars, envVars, send_log, fileVars, cadVars>>

\* accept times out (SO_RCVTIMEO, EAGAIN): continue
ServerLoop_AcceptTimeout ==
  /\ tcp_pc = "accept"
  /\ tcp_pc' = "head"
  /\ UNCHANGED <<running, shutdown_requested, main_pc, path, sig_pc, sigCount, acq_pc,
                 expected_sample, elapsed, rbRaw, rbClass, processing, an_pc, an_back,
                 samples, last_transferred_pos, xfer_i, writing, wr_pc, batch_count,
                 written, files_open, tcp_running, server_socket, client_socket,
                 new_client_socket, files_ready, client_mutex, nclients, sentTo,
                 closed_clients, added, overflow, acq_joined, an_stop_called, an_joined,
                 wr_stop_called, wr_joined, tcp_touched, tcp_stopped, send_calls,
                 app_stopped, second_stops>>
  /\ UNCHANGED <<rbVars, ecgVars, envVars, send_log, fileVars, cadVars>>

\* accept returns the socket of a new client
ServerLoop_AcceptClient ==
  /\ tcp_pc = "accept"
  /\ server_socket
  /\ nclients < clients_total
  /\ nclients' = nclients + 1
  /\ new_client_socket' = nclients + 1
  /\ tcp_pc' = "store"
  /\ UNCHANGED <<running, shutdown_requested, main_pc, path, sig_pc, sigCount, acq_pc,
                 expected_sample, elapsed, rbRaw, rbClass, processing, an_pc, an_back,
                 samples, last_transferred_pos, xfer_i, writing, wr_pc, batch_count,
                 written, files_open, tcp_running, server_socket, client_socket,
                 files_ready, client_mutex, sentTo, closed_clients, added, overflow,
                 acq_joined, an_stop_called, an_joined, wr_stop_called, wr_joined,
                 tcp_touched, tcp_stopped, send_calls, app_stopped, second_stops>>
  /\ UNCHANGED <<rbVars, ecgVars, envVars, send_log, fileVars, cadVars>>

\* accept fails on the socket Stop has closed: break
ServerLoop_AcceptError ==
  /\ tcp_pc = "accept"
  /\ ~server_socket
  /\ tcp_pc' = "done"
  /\ UNCHANGED <<running, shutdown_requested, main_pc, path, sig_pc, sigCount, acq_pc,
                 expected_sample, elapsed, rbRaw, rbClass, processing, an_pc, an_back,
                 samples, last_transferred_pos, xfer_i, writing, wr_pc, batch_count,
                 written, files_open, tcp_running, server_socket, client_socket,
                 new_client_socket, files_ready, client_mutex, nclients, sentTo,
                 closed_clients, added, overflow, acq_joined, an_stop_called, an_joined,
                 wr_stop_called, wr_joined, tcp_touched, tcp_stopped, send_calls,
                 app_stopped, second_stops>>
  /\ UNCHANGED <<rbVars, ecgVars, envVars, send_log, fileVars, cadVars>>

\* ServerLoop variant with a defect: the previous client is replaced without
\* being closed.
ServerLoop_StoreClient_NoClose ==
  /\ tcp_pc = "store"
  /\ client_mutex = "none"
  /\ closed_clients' = closed_clients
  /\ client_socket' = new_client_socket
  /\ new_client_socket' = NoSocket
  /\ tcp_pc' = "ready"
  /\ UNCHANGED <<running, shutdown_requested, main_pc, path, sig_pc, sigCount, acq_pc,
                 expected_sample, elapsed, rbRaw, rbClass, processing, an_pc, an_back,
                 samples, last_transferred_pos, xfer_i, writing, wr_pc, batch_count,
                 written, files_open, tcp_running, server_socket, files_ready,
                 client_mutex, nclients, sentTo, added, overflow, acq_joined,
                 an_stop_called, an_joined, wr_stop_called, wr_joined, tcp_touched,
                 tcp_stopped, send_calls, app_stopped, second_stops>>
  /\ UNCHANGED <<rbVars, ecgVars, envVars, send_log, fileVars, cadVars>>

\* under client_mutex_: close the previous client if any, register the new one
ServerLoop_StoreClient ==
  /\ tcp_pc = "store"
  /\ client_mutex = "none"
  /\ closed_clients' = IF client_socket # NoSocket
                         THEN closed_clients \cup {client_socket} ELSE closed_clients
  /\ client_socket' = new_client_socket
  /\ new_client_socket' = NoSocket
  /\ tcp_pc' = "ready"
  /\ UNCHANGED <<running, shutdown_requested, main_pc, path, sig_pc, sigCount, acq_pc,
                 expected_sample, elapsed, rbRaw, rbClass, processing, an_pc, an_back,
                 samples, last_transferred_pos, xfer_i, writing, wr_pc, batch_count,
                 written, files_open, tcp_running, server_socket, files_ready,
                 client_mutex, nclients, sentTo, added, overflow, acq_joined,
                 an_stop_called, an_joined, wr_stop_called, wr_joined, tcp_touched,
                 tcp_stopped, send_calls, app_stopped, second_stops>>
  /\ UNCHANGED <<rbVars, ecgVars, envVars, send_log, fileVars, cadVars>>

\* ServerLoop variant with a defect: SendAvailableFiles is called for every new
\* client, files_ready_ or not.
ServerLoop_FilesReady_Always ==
  /\ tcp_pc = "ready"
  /\ tcp_pc' = "sendlock"
  /\ UNCHANGED <<running, shutdown_requested, main_pc, path, sig_pc, sigCount, acq_pc,
                 expected_sample, elapsed, rbRaw, rbClass, processing, an_pc, an_back,
                 samples, last_transferred_pos, xfer_i, writing, wr_pc, batch_count,
                 written, files_open, tcp_running, server_socket, client_socket,
                 new_client_socket, files_ready, client_mutex, nclients, sentTo,
                 closed_clients, added, overflow, acq_joined, an_stop_called, an_joined,
                 wr_stop_called, wr_joined, tcp_touched, tcp_stopped, send_calls,
                 app_stopped, second_stops>>
  /\ UNCHANGED <<rbVars, ecgVars, envVars, send_log, fileVars, cadVars>>

\* if (files_ready_.load()) SendAvailableFiles()
ServerLoop_FilesReady ==
  /\ tcp_pc = "ready"
  /\ tcp_pc' = IF files_ready THEN "sendlock" ELSE "head"
  /\ UNCHANGED <<running, shutdown_requested, main_pc, path, sig_pc, sigCount, acq_pc,
                 expected_sample, elapsed, rbRaw, rbClass, processing, an_pc, an_back,
                 samples, last_transferred_pos, xfer_i, writing, wr_pc, batch_count,
                 written, files_open, tcp_running, server_socket, client_socket,
                 new_client_socket, files_ready, client_mutex, nclients, sentTo,
                 closed_clients, added, overflow, acq_joined, an_stop_called, an_joined,
                 wr_stop_called, wr_joined, tcp_touched, tcp_stopped, send_calls,
                 app_stopped, second_stops>>
  /\ UNCHANGED <<rbVars, ecgVars, envVars, send_log, fileVars, cadVars>>

\* SendAvailableFiles() called by the server thread
ServerLoop_SendAvailableFiles ==
  /\ tcp_pc = "sendlock"
  /\ SendAvailableFiles_Lock("srv")
  /\ tcp_pc' = IF client_socket = NoSocket THEN "head" ELSE "sendbody"
  /\ UNCHANGED <<running, shutdown_requested, main_pc, path, sig_pc, sigCount, acq_pc,
                 expected_sample, elapsed, rbRaw, rbClass, processing, an_pc, an_back,
                 samples, last_transferred_pos, xfer_i, writing, wr_pc, batch_count,
                 written, files_open, tcp_running, server_socket, client_socket,
                 new_client_socket, nclients, sentTo, closed_clients, added, overflow,
                 acq_joined, an_stop_called, an_joined, wr_stop_called, wr_joined,
                 tcp_touched, tcp_stopped, send_calls, app_stopped, second_stops>>
  /\ UNCHANGED <<rbVars, ecgVars, envVars, fileVars, cadVars>>

\* ... its body, with a client registered
ServerLoop_SendFiles ==
  /\ tcp_pc = "sendbody"
  /\ SendAvailableFiles_Send("srv")
  /\ tcp_pc' = "head"
  /\ UNCHANGED <<running, shutdown_requested, main_pc, path, sig_pc, sigCount, acq_pc,
                 expected_sample, elapsed, rbRaw, rbClass, processing, an_pc, an_back,
                 samples, last_transferred_pos, xfer_i, writing, wr_pc, batch_count,
                 written, files_open, tcp_running, server_socket, new_client_socket,
                 files_ready, nclients, added, overflow, acq_joined, an_stop_called,
                 an_joined, wr_stop_called, wr_joined, tcp_touched, tcp_stopped,
                 send_calls, app_stopped, second_stops>>
  /\ UNCHANGED <<rbVars, ecgVars, envVars, send_log, fileVars, cadVars>>

(***************************************************************************)
(* Acquisition thread: Application::AcquisitionLoop                        *)
(***************************************************************************)
\* steady_clock::now() reaches end_time while the loop runs
DurationElapses ==
  /\ acq_pc \in {"head", "sleep", "add"}
  /\ ~elapsed
  /\ elapsed' = TRUE
  /\ UNCHANGED <<running, shutdown_requested, main_pc, path, sig_pc, sigCount, acq_pc,
                 expected_sample, rbRaw, rbClass, processing, an_pc, an_back, samples,
                 last_transferred_pos, xfer_i, writing, wr_pc, batch_count, written,
                 files_open, tcp_running, tcp_pc, server_socket, client_socket,
                 new_client_socket, files_ready, client_mutex, nclients, sentTo,
                 closed_clients, added, overflow, acq_joined, an_stop_called, an_joined,
                 wr_stop_called, wr_joined, tcp_touched, tcp_stopped, send_calls,
                 app_stopped, second_stops>>
  /\ UNCHANGED <<rbVars, ecgVars, envVars, send_log, fileVars, cadVars>>

\* while (running_ && !shutdown_requested_ && now < end_time) expected_sample++
AcquisitionLoop_Head ==
  /\ acq_pc = "head"
  /\ IF running /\ ~shutdown_requested /\ ~elapsed
       THEN /\ expected_sample < MaxSlots
            /\ expected_sample' = expected_sample + 1
            /\ acq_pc' = "sleep"
       ELSE /\ acq_pc' = "exit"
            /\ UNCHANGED expected_sample
  /\ UNCHANGED <<running, shutdown_requested, main_pc, path, sig_pc, sigCount, elapsed,
                 rbRaw, rbClass, processing, an_pc, an_back, samples,
                 last_transferred_pos, xfer_i, writing, wr_pc, batch_count, written,
                 files_open, tcp_running, tcp_pc, server_socket, client_socket,
                 new_client_socket, files_ready, client_mutex, nclients, sentTo,
                 closed_clients, added, overflow, acq_joined, an_stop_called, an_joined,
                 wr_stop_called, wr_joined, tcp_touched, tcp_stopped, send_calls,
                 app_stopped, second_stops>>
  /\ UNCHANGED <<rbVars, ecgVars, envVars, send_log, fileVars, cadVars>>

\* what data_source_->ReadVoltage() can do: return a voltage, return nullopt,
\* throw a std::exception
ReadOutcomes == {"value", "nullopt", "throws"}

\* the loop body that retries the slot of a failed read: expected_sample--
\* before continue
AcquisitionLoop_AfterSleep_RetrySlot ==
  /\ acq_pc = "sleep"
  /\ IF ~running \/ shutdown_requested
       THEN acq_pc' = "exit" /\ UNCHANGED expected_sample
       ELSE \E read \in ReadOutcomes :
              /\ acq_pc' = CASE read = "value" -> "add"
                             [] read = "nullopt" -> "head"
                             [] read = "throws" -> "exit"
              /\ expected_sample' = IF read = "nullopt" THEN expected_sample - 1
                                    ELSE expected_sample
  /\ UNCHANGED <<running, shutdown_requested, main_pc, path, sig_pc, sigCount,
                 elapsed, rbRaw, rbClass, processing, an_pc, an_back,
                 samples, last_transferred_pos, xfer_i, writing, wr_pc, batch_count,
                 written, files_open, tcp_running, tcp_pc, server_socket, client_socket,
                 new_client_socket, files_ready, client_mutex, nclients, sentTo,
                 closed_clients, added, overflow, acq_joined, an_stop_called, an_joined,
                 wr_stop_called, wr_joined, tcp_touched, tcp_stopped, send_calls,
                 app_stopped, second_stops>>
  /\ UNCHANGED <<rbVars, ecgVars, envVars, send_log, fileVars, cadVars>>

\* after sleep_until: break on either flag; ReadVoltage, continue when it
\* returns nullopt; an exception leaves the loop through the catch clause
AcquisitionLoop_AfterSleep ==
  /\ acq_pc = "sleep"
  /\ IF ~running \/ shutdown_requested
       THEN acq_pc' = "exit"
       ELSE \E read \in ReadOutcomes :
              acq_pc' = CASE read = "value" -> "add"
                          [] read = "nullopt" -> "head"
                          [] read = "throws" -> "exit"
  /\ UNCHANGED <<running, shutdown_requested, main_pc, path, sig_pc, sigCount,
                 expected_sample, elapsed, rbRaw, rbClass, processing, an_pc, an_back,
                 samples, last_transferred_pos, xfer_i, writing, wr_pc, batch_count,
                 written, files_open, tcp_running, tcp_pc, server_socket, client_socket,
                 new_client_socket, files_ready, client_mutex, nclients, sentTo,
                 closed_clients, added, overflow, acq_joined, an_stop_called, an_joined,
                 wr_stop_called, wr_joined, tcp_touched, tcp_stopped, send_calls,
                 app_stopped, second_stops>>
  /\ UNCHANGED <<rbVars, ecgVars, envVars, send_log, fileVars, cadVars>>

\* buffer_raw_->AddData(sample); when the delay exceeds 10 ms expected_sample
\* is set to elapsed_us / kPeriodUs, a later slot
AcquisitionLoop_AddData ==
  /\ acq_pc = "add"
  /\ rbRaw' = AddData(rbRaw, Len(added) + 1)
  /\ added' = IF rbRaw.shutdown THEN added ELSE Append(added, Len(added) + 1)
  /\ overflow' = (overflow \/ (Full(rbRaw) /\ ~rbRaw.shutdown))
  /\ \E k \in {expected_sample} \cup ((expected_sample + 2)..MaxSlots) :
       expected_sample' = k
  /\ acq_pc' = "head"
  /\ UNCHANGED <<running, shutdown_requested, main_pc, path, sig_pc, sigCount, elapsed,
                 rbClass, processing, an_pc, an_back, samples, last_transferred_pos,
                 xfer_i, writing, wr_pc, batch_count, written, files_open, tcp_running,
                 tcp_pc, server_socket, client_socket, new_client_socket, files_ready,
                 client_mutex, nclients, sentTo, closed_clients, acq_joined,
                 an_stop_called, an_joined, wr_stop_called, wr_joined, tcp_touched,
                 tcp_stopped, send_calls, app_stopped, second_stops>>
  /\ UNCHANGED <<rbVars, ecgVars, envVars, send_log, fileVars, cadVars>>

\* the end of AcquisitionLoop with Shutdown called before the flag is cleared
AcquisitionLoop_ClearRunning_ShutdownFirst ==
  /\ acq_pc = "exit"
  /\ rbRaw' = ShutdownState(rbRaw)
  /\ acq_pc' = "shut"
  /\ UNCHANGED <<running, shutdown_requested, main_pc, path, sig_pc, sigCount, expected_sample,
                 elapsed, rbClass, processing, an_pc, an_back, samples,
                 last_transferred_pos, xfer_i, writing, wr_pc, batch_count, written,
                 files_open, tcp_running, tcp_pc, server_socket, client_socket,
                 new_client_socket, files_ready, client_mutex, nclients, sentTo,
                 closed_clients, added, overflow, acq_joined, an_stop_called, an_joined,
                 wr_stop_called, wr_joined, tcp_touched, tcp_stopped, send_calls,
                 app_stopped, second_stops>>
  /\ UNCHANGED <<rbVars, ecgVars, envVars, send_log, fileVars, cadVars>>

\* after the loop: running_ = false
AcquisitionLoop_ClearRunning ==
  /\ acq_pc = "exit"
  /\ running' = FALSE
  /\ acq_pc' = "shut"
  /\ UNCHANGED <<shutdown_requested, main_pc, path, sig_pc, sigCount, expected_sample,
                 elapsed, rbRaw, rbClass, processing, an_pc, an_back, samples,
                 last_transferred_pos, xfer_i, writing, wr_pc, batch_count, written,
                 files_open, tcp_running, tcp_pc, server_socket, client_socket,
                 new_client_socket, files_ready, client_mutex, nclients, sentTo,
                 closed_clients, added, overflow, acq_joined, an_stop_called, an_joined,
                 wr_stop_called, wr_joined, tcp_touched, tcp_stopped, send_calls,
                 app_stopped, second_stops>>
  /\ UNCHANGED <<rbVars, ecgVars, envVars, send_log, fileVars, cadVars>>

\* buffer_raw_->Shutdown(); the thread ends
AcquisitionLoop_Shutdown ==
  /\ acq_pc = "shut"
  /\ rbRaw' = ShutdownState(rbRaw)
  /\ acq_pc' = "done"
  /\ UNCHANGED <<running, shutdown_requested, main_pc, path, sig_pc, sigCount,
                 expected_sample, elapsed, rbClass, processing, an_pc, an_back, samples,
                 last_transferred_pos, xfer_i, writing, wr_pc, batch_count, written,
                 files_open, tcp_running, tcp_pc, server_socket, client_socket,
                 new_client_socket, files_ready, client_mutex, nclients, sentTo,
                 closed_clients, added, overflow, acq_joined, an_stop_called, an_joined,
                 wr_stop_called, wr_joined, tcp_touched, tcp_stopped, send_calls,
                 app_stopped, second_stops>>
  /\ UNCHANGED <<rbVars, ecgVars, envVars, send_log, fileVars, cadVars>>

(***************************************************************************)
(* Analyzer thread: ECGAnalyzer::ProcessingLoop                            *)
(***************************************************************************)
\* TransferProcessedSamples returns early: too few samples, or nothing new is safe
NothingToTransfer(s, last) == Len(s) <= TWindow \/ Len(s) - TWindow <= last

\* safe_to_transfer of TransferProcessedSamples
SafeToTransfer(s) == Len(s) - TWindow

\* the cleanup of TransferProcessedSamples: keep the last kTWindow transferred
\* samples and everything after them
TrimmedSamples(s, last) ==
  IF last > TWindow THEN SubSeq(s, last - TWindow + 1, Len(s)) ELSE s

TrimmedPos(last) == IF last > TWindow THEN TWindow ELSE last

\* where the loop the analyzer is in continues
AnalyzerLoop == IF an_back = "check" THEN "check" ELSE "consume"

\* ProcessFinalData variant with a defect: nothing is transferred.
FinalTransferFrom_Nothing == Len(samples)

\* first index ProcessFinalData transfers
FinalTransferFrom == last_transferred_pos

\* while (processing_): when it is false the loop "Process remaining samples" starts
ProcessingLoop_Check ==
  /\ an_pc = "check"
  /\ IF processing
       THEN UNCHANGED an_back
       ELSE an_back' = "drain"
  /\ an_pc' = "consume"
  /\ UNCHANGED <<running, shutdown_requested, main_pc, path, sig_pc, sigCount, acq_pc,
                 expected_sample, elapsed, rbRaw, rbClass, processing, samples,
                 last_transferred_pos, xfer_i, writing, wr_pc, batch_count, written,
                 files_open, tcp_running, tcp_pc, server_socket, client_socket,
                 new_client_socket, files_ready, client_mutex, nclients, sentTo,
                 closed_clients, added, overflow, acq_joined, an_stop_called, an_joined,
                 wr_stop_called, wr_joined, tcp_touched, tcp_stopped, send_calls,
                 app_stopped, second_stops>>
  /\ UNCHANGED <<rbVars, ecgVars, envVars, send_log, fileVars, cadVars>>

\* buffer_raw_->Consume() of either loop.  nullopt: the first loop breaks and
\* the second begins; the second ends and ProcessFinalData begins.  A sample:
\* ProcessSample appends it and enters TransferProcessedSamples.
ProcessingLoop_Consume ==
  /\ an_pc = "consume"
  /\ ConsumeReady(rbRaw)
  /\ rbRaw' = ConsumeState(rbRaw)
  /\ LET r == ConsumeResult(rbRaw) IN
       IF r = None
         THEN /\ IF an_back = "check"
                   THEN /\ an_back' = "drain"
                        /\ UNCHANGED <<an_pc, xfer_i>>
                   ELSE /\ an_pc' = "final"
                        /\ xfer_i' = FinalTransferFrom
                        /\ UNCHANGED an_back
              /\ UNCHANGED samples
         ELSE /\ samples' = Append(samples, r[1])
              /\ IF NothingToTransfer(Append(samples, r[1]), last_transferred_pos)
                   THEN /\ an_pc' = AnalyzerLoop
                        /\ UNCHANGED xfer_i
                   ELSE /\ an_pc' = "xfer"
                        /\ xfer_i' = last_transferred_pos
              /\ UNCHANGED an_back
  /\ UNCHANGED <<running, shutdown_requested, main_pc, path, sig_pc, sigCount, acq_pc,
                 expected_sample, elapsed, rbClass, processing, last_transferred_pos,
                 writing, wr_pc, batch_count, written, files_open, tcp_running, tcp_pc,
                 server_socket, client_socket, new_client_socket, files_ready,
                 client_mutex, nclients, sentTo, closed_clients, added, overflow,
                 acq_joined, an_stop_called, an_joined, wr_stop_called, wr_joined,
                 tcp_touched, tcp_stopped, send_calls, app_stopped, second_stops>>
  /\ UNCHANGED <<rbVars, ecgVars, envVars, send_log, fileVars, cadVars>>

\* one iteration of the loop  for (i = last_transferred_pos_; i < safe; i++)
\* AddData(samples_[i]);  after the last one, last_transferred_pos_ = safe and
\* the cleanup
TransferProcessedSamples ==
  /\ an_pc = "xfer"
  /\ rbClass' = AddData(rbClass, samples[xfer_i + 1])
  /\ overflow' = (overflow \/ (Full(rbClass) /\ ~rbClass.shutdown))
  /\ IF xfer_i + 1 < SafeToTransfer(samples)
       THEN /\ xfer_i' = xfer_i + 1
            /\ UNCHANGED <<samples, last_transferred_pos, an_pc>>
       ELSE /\ samples' = TrimmedSamples(samples, SafeToTransfer(samples))
            /\ last_transferred_pos' = TrimmedPos(SafeToTransfer(samples))
            /\ an_pc' = AnalyzerLoop
            /\ UNCHANGED xfer_i
  /\ UNCHANGED <<running, shutdown_requested, main_pc, path, sig_pc, sigCount, acq_pc,
                 expected_sample, elapsed, rbRaw, processing, an_back, writing, wr_pc,
                 batch_count, written, files_open, tcp_running, tcp_pc, server_socket,
                 client_socket, new_client_socket, files_ready, client_mutex, nclients,
                 sentTo, closed_clients, added, acq_joined, an_stop_called, an_joined,
                 wr_stop_called, wr_joined, tcp_touched, tcp_stopped, send_calls,
                 app_stopped, second_stops>>
  /\ UNCHANGED <<rbVars, ecgVars, envVars, send_log, fileVars, cadVars>>

\* ProcessFinalData: for (i = last_transferred_pos_; i < samples_.size(); i++)
\* AddData(samples_[i])
ProcessFinalData ==
  /\ an_pc = "final"
  /\ xfer_i < Len(samples)
  /\ rbClass' = AddData(rbClass, samples[xfer_i + 1])
  /\ overflow' = (overflow \/ (Full(rbClass) /\ ~rbClass.shutdown))
  /\ xfer_i' = xfer_i + 1
  /\ UNCHANGED <<running, shutdown_requested, main_pc, path, sig_pc, sigCount, acq_pc,
                 expected_sample, elapsed, rbRaw, processing, an_pc, an_back, samples,
                 last_transferred_pos, writing, wr_pc, batch_count, written, files_open,
                 tcp_running, tcp_pc, server_socket, client_socket, new_client_socket,
                 files_ready, client_mutex, nclients, sentTo, closed_clients, added,
                 acq_joined, an_stop_called, an_joined, wr_stop_called, wr_joined,
                 tcp_touched, tcp_stopped, send_calls, app_stopped, second_stops>>
  /\ UNCHANGED <<rbVars, ecgVars, envVars, send_log, fileVars, cadVars>>

\* buffer_classified_->Shutdown(); the thread ends
ProcessingLoop_Shutdown ==
  /\ an_pc = "final"
  /\ xfer_i >= Len(samples)
  /\ rbClass' = ShutdownState(rbClass)
  /\ an_pc' = "done"
  /\ UNCHANGED <<running, shutdown_requested, main_pc, path, sig_pc, sigCount, acq_pc,
                 expected_sample, elapsed, rbRaw, processing, an_back, samples,
                 last_transferred_pos, xfer_i, writing, wr_pc, batch_count, written,
                 files_open, tcp_running, tcp_pc, server_socket, client_socket,
                 new_client_socket, files_ready, client_mutex, nclients, sentTo,
                 closed_clients, added, overflow, acq_joined, an_stop_called, an_joined,
                 wr_stop_called, wr_joined, tcp_touched, tcp_stopped, send_calls,
                 app_stopped, second_stops>>
  /\ UNCHANGED <<rbVars, ecgVars, envVars, send_log, fileVars, cadVars>>

(***************************************************************************)
(* Writer thread: FileManager::WritingLoop                                 *)
(***************************************************************************)
\* WriteSample appends the sample to each stream that is open (both are, from
\* Init to Close)
WriteSample(w, s) == IF files_open THEN Append(w, s) ELSE w

\* where WriteAvailableData returns to
WriterLoop == IF wr_pc = "batch" THEN "wcheck" ELSE "echeck"

\* while (writing_) WriteAvailableData()
WritingLoop_Check ==
  /\ wr_pc = "wcheck"
  /\ wr_pc' = IF writing THEN "batch" ELSE "echeck"
  /\ batch_count' = 0
  /\ UNCHANGED <<running, shutdown_requested, main_pc, path, sig_pc, sigCount, acq_pc,
                 expected_sample, elapsed, rbRaw, rbClass, processing, an_pc, an_back,
                 samples, last_transferred_pos, xfer_i, writing, written, files_open,
                 tcp_running, tcp_pc, server_socket, client_socket, new_client_socket,
                 files_ready, client_mutex, nclients, sentTo, closed_clients, added,
                 overflow, acq_joined, an_stop_called, an_joined, wr_stop_called,
                 wr_joined, tcp_touched, tcp_stopped, send_calls, app_stopped,
                 second_stops>>
  /\ UNCHANGED <<rbVars, ecgVars, envVars, send_log, fileVars, cadVars>>

\* while (!buffer_->Empty()) WriteAvailableData(); then FlushRemainingData()
WritingLoop_EmptyCheck ==
  /\ wr_pc = "echeck"
  /\ wr_pc' = IF ~Empty(rbClass) THEN "ebatch" ELSE "flush"
  /\ batch_count' = 0
  /\ UNCHANGED <<running, shutdown_requested, main_pc, path, sig_pc, sigCount, acq_pc,
                 expected_sample, elapsed, rbRaw, rbClass, processing, an_pc, an_back,
                 samples, last_transferred_pos, xfer_i, writing, written, files_open,
                 tcp_running, tcp_pc, server_socket, client_socket, new_client_socket,
                 files_ready, client_mutex, nclients, sentTo, closed_clients, added,
                 overflow, acq_joined, an_stop_called, an_joined, wr_stop_called,
                 wr_joined, tcp_touched, tcp_stopped, send_calls, app_stopped,
                 second_stops>>
  /\ UNCHANGED <<rbVars, ecgVars, envVars, send_log, fileVars, cadVars>>

\* one iteration of  while (batch_count < max_batch_size) { Consume; break on
\* nullopt; WriteSample; batch_count++ }
WriteAvailableData ==
  /\ wr_pc \in {"batch", "ebatch"}
  /\ ConsumeReady(rbClass)
  /\ rbClass' = ConsumeState(rbClass)
  /\ LET r == ConsumeResult(rbClass) IN
       IF r = None
         THEN /\ wr_pc' = WriterLoop
              /\ UNCHANGED <<written, batch_count>>
         ELSE /\ written' = WriteSample(written, r[1])
              /\ batch_count' = batch_count + 1
              /\ wr_pc' = IF batch_count + 1 < MaxBatch THEN wr_pc ELSE WriterLoop
  /\ UNCHANGED <<running, shutdown_requested, main_pc, path, sig_pc, sigCount, acq_pc,
                 expected_sample, elapsed, rbRaw, processing, an_pc, an_back, samples,
                 last_transferred_pos, xfer_i, writing, files_open, tcp_running, tcp_pc,
                 server_socket, client_socket, new_client_socket, files_ready,
                 client_mutex, nclients, sentTo, closed_clients, added, overflow,
                 acq_joined, an_stop_called, an_joined, wr_stop_called, wr_joined,
                 tcp_touched, tcp_stopped, send_calls, app_stopped, second_stops>>
  /\ UNCHANGED <<rbVars, ecgVars, envVars, send_log, fileVars, cadVars>>

\* FlushRemainingData whose read waits for data only, whatever the shutdown flag
FlushRemainingData_WaitForData ==
  /\ wr_pc = "flush"
  /\ ~Empty(rbClass)
  /\ rbClass' = ConsumeState(rbClass)
  /\ LET r == ConsumeResult(rbClass) IN
       IF r = None
         THEN /\ wr_pc' = "done"
              /\ UNCHANGED written
         ELSE /\ written' = WriteSample(written, r[1])
              /\ UNCHANGED wr_pc
  /\ UNCHANGED <<running, shutdown_requested, main_pc, path, sig_pc, sigCount, acq_pc,
                 expected_sample, elapsed, rbRaw, processing, an_pc, an_back, samples,
                 last_transferred_pos, xfer_i, writing, batch_count, files_open,
                 tcp_running, tcp_pc, server_socket, client_socket, new_client_socket,
                 files_ready, client_mutex, nclients, sentTo, closed_clients, added,
                 overflow, acq_joined, an_stop_called, an_joined, wr_stop_called,
                 wr_joined, tcp_touched, tcp_stopped, send_calls, app_stopped,
                 second_stops>>
  /\ UNCHANGED <<rbVars, ecgVars, envVars, send_log, fileVars, cadVars>>

\* FlushRemainingData: Consume and WriteSample until nullopt; the thread ends
FlushRemainingData ==
  /\ wr_pc = "flush"
  /\ ConsumeReady(rbClass)
  /\ rbClass' = ConsumeState(rbClass)
  /\ LET r == ConsumeResult(rbClass) IN
       IF r = None
         THEN /\ wr_pc' = "done"
              /\ UNCHANGED written
         ELSE /\ written' = WriteSample(written, r[1])
              /\ UNCHANGED wr_pc
  /\ UNCHANGED <<running, shutdown_requested, main_pc, path, sig_pc, sigCount, acq_pc,
                 expected_sample, elapsed, rbRaw, processing, an_pc, an_back, samples,
                 last_transferred_pos, xfer_i, writing, batch_count, files_open,
                 tcp_running, tcp_pc, server_socket, client_socket, new_client_socket,
                 files_ready, client_mutex, nclients, sentTo, closed_clients, added,
                 overflow, acq_joined, an_stop_called, an_joined, wr_stop_called,
                 wr_joined, tcp_touched, tcp_stopped, send_calls, app_stopped,
                 second_stops>>
  /\ UNCHANGED <<rbVars, ecgVars, envVars, send_log, fileVars, cadVars>>

(***************************************************************************)
(* After Application::Run has returned: ~Application calls Application::Stop, *)
(* ~TCPFileServer calls TCPFileServer::Stop, and each Stop may be called   *)
(* once more by the owner of the stage.                                    *)
(***************************************************************************)
\* std::thread::joinable() of the two worker threads
AnalyzerJoinable == an_pc # "off" /\ ~an_joined
WriterJoinable == wr_pc # "off" /\ ~wr_joined

\* ~Application: Stop() is entered; a further call may follow its return
Application_StopCall ==
  /\ main_pc = "Returned"
  /\ "app" \notin second_stops
  /\ main_pc' = "AppStop"
  /\ UNCHANGED <<running, shutdown_requested, path, sig_pc, sigCount, acq_pc,
                 expected_sample, elapsed, rbRaw, rbClass, processing, an_pc, an_back,
                 samples, last_transferred_pos, xfer_i, writing, wr_pc, batch_count,
                 written, files_open, tcp_running, tcp_pc, server_socket, client_socket,
                 new_client_socket, files_ready, client_mutex, nclients, sentTo,
                 closed_clients, added, overflow, acq_joined, an_stop_called, an_joined,
                 wr_stop_called, wr_joined, tcp_touched, tcp_stopped, send_calls,
                 app_stopped, second_stops>>
  /\ UNCHANGED <<rbVars, ecgVars, envVars, send_log, fileVars, cadVars>>

\* Application::Stop: if (running_) { running_ = false; buffer_raw_->Shutdown(); }
Application_Stop ==
  /\ main_pc = "AppStop"
  /\ IF running
       THEN /\ running' = FALSE
            /\ rbRaw' = ShutdownState(rbRaw)
       ELSE UNCHANGED <<running, rbRaw>>
  /\ app_stopped' = TRUE
  /\ second_stops' = IF app_stopped THEN second_stops \cup {"app"} ELSE second_stops
  /\ main_pc' = "Returned"
  /\ UNCHANGED <<shutdown_requested, path, sig_pc, sigCount, acq_pc, expected_sample,
                 elapsed, rbClass, processing, an_pc, an_back, samples,
                 last_transferred_pos, xfer_i, writing, wr_pc, batch_count, written,
                 files_open, tcp_running, tcp_pc, server_socket, client_socket,
                 new_client_socket, files_ready, client_mutex, nclients, sentTo,
                 closed_clients, added, overflow, acq_joined, an_stop_called, an_joined,
                 wr_stop_called, wr_joined, tcp_touched, tcp_stopped, send_calls>>
  /\ UNCHANGED <<rbVars, ecgVars, envVars, send_log, fileVars, cadVars>>

\* ECGAnalyzer::Stop called after its first call has returned: processing_ = false
ECGAnalyzer_StopAgain ==
  /\ main_pc = "Returned"
  /\ an_joined
  /\ "analyzer" \notin second_stops
  /\ processing' = FALSE
  /\ main_pc' = "AnStopAgain"
  /\ UNCHANGED <<running, shutdown_requested, path, sig_pc, sigCount, acq_pc,
                 expected_sample, elapsed, rbRaw, rbClass, an_pc, an_back, samples,
                 last_transferred_pos, xfer_i, writing, wr_pc, batch_count, written,
                 files_open, tcp_running, tcp_pc, server_socket, client_socket,
                 new_client_socket, files_ready, client_mutex, nclients, sentTo,
                 closed_clients, added, overflow, acq_joined, an_stop_called, an_joined,
                 wr_stop_called, wr_joined, tcp_touched, tcp_stopped, send_calls,
                 app_stopped, second_stops>>
  /\ UNCHANGED <<rbVars, ecgVars, envVars, send_log, fileVars, cadVars>>

\* ... buffer_raw_->Shutdown(); join only if (processing_thread_.joinable())
ECGAnalyzer_StopAgainRest ==
  /\ main_pc = "AnStopAgain"
  /\ rbRaw' = ShutdownState(rbRaw)
  /\ IF AnalyzerJoinable
       THEN an_pc = "done" /\ an_joined' = TRUE
       ELSE UNCHANGED an_joined
  /\ second_stops' = second_stops \cup {"analyzer"}
  /\ main_pc' = "Returned"
  /\ UNCHANGED <<running, shutdown_requested, path, sig_pc, sigCount, acq_pc,
                 expected_sample, elapsed, rbClass, processing, an_pc, an_back, samples,
                 last_transferred_pos, xfer_i, writing, wr_pc, batch_count, written,
                 files_open, tcp_running, tcp_pc, server_socket, client_socket,
                 new_client_socket, files_ready, client_mutex, nclients, sentTo,
                 closed_clients, added, overflow, acq_joined, an_stop_called,
                 wr_stop_called, wr_joined, tcp_touched, tcp_stopped, send_calls,
                 app_stopped>>
  /\ UNCHANGED <<rbVars, ecgVars, envVars, send_log, fileVars, cadVars>>

\* FileManager::Stop called after its first call has returned: writing_ = false
FileManager_StopAgain ==
  /\ main_pc = "Returned"
  /\ wr_joined
  /\ "writer" \notin second_stops
  /\ writing' = FALSE
  /\ main_pc' = "WrStopAgain"
  /\ UNCHANGED <<running, shutdown_requested, path, sig_pc, sigCount, acq_pc,
                 expected_sample, elapsed, rbRaw, rbClass, processing, an_pc, an_back,
                 samples, last_transferred_pos, xfer_i, wr_pc, batch_count, written,
                 files_open, tcp_running, tcp_pc, server_socket, client_socket,
                 new_client_socket, files_ready, client_mutex, nclients, sentTo,
                 closed_clients, added, overflow, acq_joined, an_stop_called, an_joined,
                 wr_stop_called, wr_joined, tcp_touched, tcp_stopped, send_calls,
                 app_stopped, second_stops>>
  /\ UNCHANGED <<rbVars, ecgVars, envVars, send_log, fileVars, cadVars>>

\* ... join only if (writing_thread_.joinable()); Close() closes the streams
\* that are open
FileManager_StopAgainRest ==
  /\ main_pc = "WrStopAgain"
  /\ IF WriterJoinable
       THEN wr_pc = "done" /\ wr_joined' = TRUE
       ELSE UNCHANGED wr_joined
  /\ files_open' = FALSE
  /\ second_stops' = second_stops \cup {"writer"}
  /\ main_pc' = "Returned"
  /\ UNCHANGED <<running, shutdown_requested, path, sig_pc, sigCount, acq_pc,
                 expected_sample, elapsed, rbRaw, rbClass, processing, an_pc, an_back,
                 samples, last_transferred_pos, xfer_i, writing, wr_pc, batch_count,
                 written, tcp_running, tcp_pc, server_socket, client_socket,
                 new_client_socket, files_ready, client_mutex, nclients, sentTo,
                 closed_clients, added, overflow, acq_joined, an_stop_called, an_joined,
                 wr_stop_called, tcp_touched, tcp_stopped, send_calls, app_stopped>>
  /\ UNCHANGED <<rbVars, ecgVars, envVars, send_log, fileVars, cadVars>>

\* ~TCPFileServer, or any later caller: TCPFileServer::Stop is entered again
\* (its body is TCPFileServer_Stop)
TCPFileServer_StopAgain ==
  /\ main_pc = "Returned"
  /\ tcp_stopped
  /\ "server" \notin second_stops
  /\ second_stops' = second_stops \cup {"server"}
  /\ main_pc' = "TcpStop"
  /\ UNCHANGED <<running, shutdown_requested, path, sig_pc, sigCount, acq_pc,
                 expected_sample, elapsed, rbRaw, rbClass, processing, an_pc, an_back,
                 samples, last_transferred_pos, xfer_i, writing, wr_pc, batch_count,
                 written, files_open, tcp_running, tcp_pc, server_socket, client_socket,
                 new_client_socket, files_ready, client_mutex, nclients, sentTo,
                 closed_clients, added, overflow, acq_joined, an_stop_called, an_joined,
                 wr_stop_called, wr_joined, tcp_touched, tcp_stopped, send_calls,
                 app_stopped>>
  /\ UNCHANGED <<rbVars, ecgVars, envVars, send_log, fileVars, cadVars>>

StopCalls ==
  \/ Application_StopCall \/ Application_Stop
  \/ ECGAnalyzer_StopAgain \/ ECGAnalyzer_StopAgainRest
  \/ FileManager_StopAgain \/ FileManager_StopAgainRest
  \/ TCPFileServer_StopAgain

(***************************************************************************)
(* The process                                                             *)
(***************************************************************************)
Init == InitPipe /\ RBInit(1) /\ EnvInit(MaxClients, MaxSignals)

SignalHandler == RequestShutdown_SetRequested \/ RequestShutdown_ClearRunning

MainThread ==
  \/ Application_Start \/ Application_Run \/ ECGAnalyzer_Run \/ FileManager_Run
  \/ TCPFileServer_Run \/ Application_WaitLoop \/ Application_Decide
  \/ GracefulShutdown_ClearRunning \/ Application_JoinAcquisition
  \/ ECGAnalyzer_Stop \/ ECGAnalyzer_StopShutdown \/ ECGAnalyzer_StopJoin
  \/ FileManager_Stop \/ FileManager_StopJoinClose
  \/ Application_HasConnectedClient \/ Application_SendAvailableFiles
  \/ Application_SendFiles \/ TCPFileServer_Stop \/ TCPFileServer_StopCloseClient
  \/ TCPFileServer_StopCloseServer \/ TCPFileServer_StopJoin

AcquisitionThread ==
  \/ AcquisitionLoop_Head \/ AcquisitionLoop_AfterSleep \/ AcquisitionLoop_AddData
  \/ AcquisitionLoop_ClearRunning \/ AcquisitionLoop_Shutdown

AnalyzerThread ==
  \/ ProcessingLoop_Check \/ ProcessingLoop_Consume \/ TransferProcessedSamples
  \/ ProcessFinalData \/ ProcessingLoop_Shutdown

WriterThread ==
  \/ WritingLoop_Check \/ WritingLoop_EmptyCheck \/ WriteAvailableData
  \/ FlushRemainingData

\* the server thread's own steps; a client connecting is the environment's
ServerThread ==
  \/ ServerLoop_Head \/ ServerLoop_AcceptTimeout \/ ServerLoop_AcceptError
  \/ ServerLoop_StoreClient \/ ServerLoop_FilesReady
  \/ ServerLoop_SendAvailableFiles \/ ServerLoop_SendFiles

Next ==
  \/ SignalHandler \/ MainThread \/ DurationElapses \/ AcquisitionThread
  \/ AnalyzerThread \/ WriterThread \/ ServerThread \/ ServerLoop_AcceptClient
  \/ StopCalls

Spec == Init /\ [][Next]_vars

\* The same process in a run with ManyClients clients and ManySignals signals
InitNet == InitPipe /\ RBInit(1) /\ EnvInit(ManyClients, ManySignals)

SpecNet == InitNet /\ [][Next]_vars

\* Fair scheduling of every thread and of the signal handler once it has
\* started (the main thread also when it is inside a later Stop call); signals,
\* the clock reaching end_time and clients are not forced.
LiveSpec ==
  /\ Spec
  /\ WF_vars(MainThread \/ StopCalls)
  /\ WF_vars(RequestShutdown_ClearRunning)
  /\ WF_vars(AcquisitionThread)
  /\ WF_vars(AnalyzerThread)
  /\ WF_vars(WriterThread)
  /\ WF_vars(ServerThread)

(***************************************************************************)
(* SpecAn: the processing thread of one ECGAnalyzer fed with every voltage *)
(* sequence of up to MaxStream samples, ended at any point by the shutdown  *)
(* of RB-raw.                                                               *)
(***************************************************************************)
\* One pass of ProcessingLoop: Consume returns a sample and ProcessSample
\* runs on it (push_back, DetectRPeaks, ProcessCompleteBeats,
\* TransferProcessedSamples).
ProcessSample ==
  /\ ~ecg_hist.done /\ Len(ecg_hist.consumed) < MaxStream
  /\ \E v \in Voltages :
     \E b \in {BeforeTransfer(ecg, Sample(v, Len(ecg_hist.consumed)))} :
       LET sample == Sample(v, Len(ecg_hist.consumed))
           early == TransferReturnsEarly(b)
           marks == IF early THEN <<>>
                    ELSE ClassificationMarks(b.detected_beats, Len(b.samples))
           nb == Len(b.detected_beats)
       IN  /\ ecg' = IF early THEN b ELSE AfterTransfer(b)
           /\ ecg_hist' =
                [ecg_hist EXCEPT
                   !.consumed = Append(@, sample),
                   !.emitted = @ \o (IF early THEN <<>> ELSE TransferBatch(b)),
                   !.tags = @ \cup StampedMarks(b.samples, marks),
                   !.r_stamps =
                      IF nb > Len(ecg.detected_beats)
                        THEN Append(@, b.samples[b.detected_beats[nb].r_pos + 1].timestamp)
                        ELSE @]
  /\ UNCHANGED <<rbVars, pipeVars, envVars, fileVars, cadVars>>

\* Consume returns nullopt: ProcessFinalData, then the thread finishes.
FinalProcessing ==
  /\ ~ecg_hist.done
  /\ ecg' = FinalAnalyzer(ecg)
  /\ ecg_hist' =
       [ecg_hist EXCEPT
          !.emitted = @ \o FinalBatch(ecg),
          !.tags = @ \cup StampedMarks(ecg.samples,
                      ClassificationMarks(ProcessCompleteBeats(ecg).detected_beats,
                                          Len(ecg.samples))),
          !.done = TRUE]
  /\ UNCHANGED <<rbVars, pipeVars, envVars, fileVars, cadVars>>

NextAn == ProcessSample \/ FinalProcessing

SpecAn == Init /\ [][NextAn]_vars

(***************************************************************************)
(* SpecWr: the FileManager alone, from Init to Close, on the samples its   *)
(* Consume calls return.  Voltages are in millivolts, timestamps in        *)
(* microseconds of the steady clock.                                       *)
(***************************************************************************)
\* config::kVoltageRange, in millivolts
kVoltageRange == 4096

WaveTypes == {"kNormal", "kR"}
FileVoltages == {-5000, 100, 4096}

\* WaveTypeToString
WaveTypeToString(type) ==
  CASE type = "kNormal" -> "N"
    [] type = "kP" -> "P"
    [] type = "kQ" -> "Q"
    [] type = "kR" -> "R"
    [] type = "kS" -> "S"
    [] type = "kT" -> "T"
    [] OTHER -> "-"

\* voltage * 32768 / kVoltageRange, clamped to int16_t
ToInt16(voltage) ==
  LET scaled == (voltage * 32768) \div kVoltageRange IN
    IF scaled > 32767 THEN 32767
    ELSE IF scaled < -32768 THEN -32768
    ELSE scaled

\* uint64_t subtraction; the width is scaled down to SizeT, as for size_t
U64Sub(a, b) == (a - b) % SizeT

\* the samples Consume can return next: acquisition order, so later timestamps
NextSamples ==
  LET last == IF fm_consumed = <<>> THEN 0 ELSE fm_consumed[Len(fm_consumed)].timestamp IN
    IF Len(fm_consumed) >= MaxFileSamples THEN {}
    ELSE {[timestamp |-> t, voltage |-> v, classification |-> c] :
            t \in (last + 1)..(IF last + 2 <= MaxStamp THEN last + 2 ELSE MaxStamp),
            v \in FileVoltages, c \in WaveTypes}

\* WriteSample, binary part: the record appended when the stream is open
WriteBin(stream, sample) ==
  IF stream.is_open
    THEN [stream EXCEPT !.data = Append(@, [raw_data |-> ToInt16(sample.voltage),
                                            timestamp_us |-> sample.timestamp])]
    ELSE stream

\* WriteSample whose CSV part leaves out the sample that sets first_timestamp_
WriteCsv_AfterFirst(stream, sample, first) ==
  IF stream.is_open /\ sample.timestamp # first
    THEN [stream EXCEPT !.data = Append(@,
            [timestamp_us |-> U64Sub(sample.timestamp, first),
             voltage |-> sample.voltage,
             classification |-> WaveTypeToString(sample.classification)])]
    ELSE stream

\* WriteSample, CSV part: the row appended when the stream is open
WriteCsv(stream, sample, first) ==
  IF stream.is_open
    THEN [stream EXCEPT !.data = Append(@,
            [timestamp_us |-> U64Sub(sample.timestamp, first),
             voltage |-> sample.voltage,
             classification |-> WaveTypeToString(sample.classification)])]
    ELSE stream

\* if (stream && stream->is_open()) stream->flush()
FlushStream(stream, do) ==
  IF do /\ stream.is_open THEN [stream EXCEPT !.flushed = Len(stream.data)] ELSE stream

\* FileManager::Close, one stream: close() writes what is buffered
CloseStream(stream) ==
  IF stream.is_open
    THEN [stream EXCEPT !.is_open = FALSE, !.flushed = Len(stream.data)]
    ELSE stream

\* the check at the head of WriteAvailableData and of FlushRemainingData
NoStreamOpen == ~csv_stream.is_open /\ ~bin_stream.is_open

\* WriteSample with a defect: first_timestamp_ is assigned on every call.
FileManager_WriteSample_Rebase(sample, flush) ==
  /\ first_timestamp' = Some(sample.timestamp)
  /\ bin_stream' = FlushStream(WriteBin(bin_stream, sample), flush)
  /\ csv_stream' = FlushStream(WriteCsv(csv_stream, sample, sample.timestamp), flush)
  /\ samples_written' = samples_written + 1
  /\ fm_consumed' = Append(fm_consumed, sample)

\* Consume returned `sample`: WriteSample(sample); samples_written_++; and the
\* flush of both streams when the loop around it ends here
FileManager_WriteSample(sample, flush) ==
  LET first == IF first_timestamp = None THEN sample.timestamp ELSE first_timestamp[1] IN
    /\ first_timestamp' = Some(first)
    /\ bin_stream' = FlushStream(WriteBin(bin_stream, sample), flush)
    /\ csv_stream' = FlushStream(WriteCsv(csv_stream, sample, first), flush)
    /\ samples_written' = samples_written + 1
    /\ fm_consumed' = Append(fm_consumed, sample)

\* Consume returned nullopt: the loop ends, both streams are flushed when the
\* loop wrote something
FileManager_EndOfBatch ==
  /\ bin_stream' = FlushStream(bin_stream, fm_count > 0)
  /\ csv_stream' = FlushStream(csv_stream, fm_count > 0)
  /\ UNCHANGED <<first_timestamp, samples_written, fm_consumed>>

\* FileManager::Init: both streams are constructed, then tested; the CSV header
\* is written and flushed when both are open
FileManager_Init ==
  /\ fm_pc = "new"
  /\ \E bin_ok, csv_ok \in BOOLEAN :
       /\ bin_stream' = [NoStream EXCEPT !.is_open = bin_ok]
       /\ csv_stream' = [NoStream EXCEPT !.is_open = csv_ok,
                                          !.header = bin_ok /\ csv_ok]
       /\ fm_pc' = IF bin_ok /\ csv_ok THEN "ready" ELSE "failed"
  /\ UNCHANGED <<fm_writing, fm_count, first_timestamp, samples_written, fm_consumed>>
  /\ UNCHANGED <<rbVars, pipeVars, ecgVars, envVars, cadVars>>

\* FileManager::Run, called after a successful Init
FileManager_RunThread ==
  /\ fm_pc = "ready"
  /\ fm_writing' = TRUE
  /\ fm_pc' = "wcheck"
  /\ UNCHANGED <<fm_count, csv_stream, bin_stream, first_timestamp, samples_written,
                 fm_consumed>>
  /\ UNCHANGED <<rbVars, pipeVars, ecgVars, envVars, cadVars>>

\* FileManager::Stop: writing_ = false
FileManager_StopRequest ==
  /\ fm_pc \in {"wcheck", "batch"}
  /\ fm_writing
  /\ fm_writing' = FALSE
  /\ UNCHANGED <<fm_pc, fm_count, csv_stream, bin_stream, first_timestamp,
                 samples_written, fm_consumed>>
  /\ UNCHANGED <<rbVars, pipeVars, ecgVars, envVars, cadVars>>

\* FileManager::Stop: join, then Close
FileManager_JoinClose ==
  /\ fm_pc = "ended"
  /\ csv_stream' = CloseStream(csv_stream)
  /\ bin_stream' = CloseStream(bin_stream)
  /\ fm_pc' = "closed"
  /\ UNCHANGED <<fm_writing, fm_count, first_timestamp, samples_written, fm_consumed>>
  /\ UNCHANGED <<rbVars, pipeVars, ecgVars, envVars, cadVars>>

\* WritingLoop: while (writing_) WriteAvailableData()
FileManager_LoopCheck ==
  /\ fm_pc = "wcheck"
  /\ fm_pc' = IF ~fm_writing THEN "echeck"
              ELSE IF NoStreamOpen THEN "wcheck" ELSE "batch"
  /\ fm_count' = 0
  /\ UNCHANGED <<fm_writing, csv_stream, bin_stream, first_timestamp, samples_written,
                 fm_consumed>>
  /\ UNCHANGED <<rbVars, pipeVars, ecgVars, envVars, cadVars>>

\* WritingLoop: while (!buffer_->Empty()) WriteAvailableData(); then
\* FlushRemainingData()
FileManager_EmptyCheck ==
  /\ fm_pc = "echeck"
  /\ \E empty \in {NextSamples = {}, TRUE} :
       fm_pc' = IF empty \/ NoStreamOpen THEN "final" ELSE "ebatch"
  /\ fm_count' = 0
  /\ UNCHANGED <<fm_writing, csv_stream, bin_stream, first_timestamp, samples_written,
                 fm_consumed>>
  /\ UNCHANGED <<rbVars, pipeVars, ecgVars, envVars, cadVars>>

\* WriteAvailableData, one turn of its loop: Consume; break on nullopt;
\* WriteSample; batch_count++; samples_written_++
FileManager_WriteAvailableData ==
  /\ fm_pc \in {"batch", "ebatch"}
  /\ LET back == IF fm_pc = "batch" THEN "wcheck" ELSE "echeck"
         nullopt == IF fm_pc = "ebatch" /\ fm_count = 0 THEN {} ELSE {None} IN
       \E r \in nullopt \cup {Some(x) : x \in NextSamples} :
         IF r = None
           THEN /\ FileManager_EndOfBatch
                /\ fm_pc' = back
                /\ UNCHANGED fm_count
           ELSE /\ FileManager_WriteSample(r[1], fm_count + 1 >= MaxBatch)
                /\ fm_count' = fm_count + 1
                /\ fm_pc' = IF fm_count + 1 < MaxBatch THEN fm_pc ELSE back
  /\ UNCHANGED fm_writing
  /\ UNCHANGED <<rbVars, pipeVars, ecgVars, envVars, cadVars>>

\* FlushRemainingData, one turn of its loop
FileManager_FlushRemainingData ==
  /\ fm_pc = "final"
  /\ IF NoStreamOpen
       THEN /\ fm_pc' = "ended"
            /\ UNCHANGED <<fm_count, csv_stream, bin_stream, first_timestamp,
                           samples_written, fm_consumed>>
       ELSE \E r \in {None} \cup {Some(x) : x \in NextSamples} :
              IF r = None
                THEN /\ FileManager_EndOfBatch
                     /\ fm_pc' = "ended"
                     /\ UNCHANGED fm_count
                ELSE /\ FileManager_WriteSample(r[1], FALSE)
                     /\ fm_count' = fm_count + 1
                     /\ UNCHANGED fm_pc
  /\ UNCHANGED fm_writing
  /\ UNCHANGED <<rbVars, pipeVars, ecgVars, envVars, cadVars>>

NextWr ==
  \/ FileManager_Init
  \/ FileManager_RunThread
  \/ FileManager_StopRequest
  \/ FileManager_JoinClose
  \/ FileManager_LoopCheck
  \/ FileManager_EmptyCheck
  \/ FileManager_WriteAvailableData
  \/ FileManager_FlushRemainingData

SpecWr == Init /\ [][NextWr]_vars

(***************************************************************************)
(* SpecCad: the cadence of Application::AcquisitionLoop with the clock     *)
(* explicit.  Times are in milliseconds since start_time; the thread can   *)
(* be held up for up to MaxStall at each of its steps.                     *)
(***************************************************************************)
\* config::kPeriodUs (4000 us) and the resync threshold (10000 us), in ms
kPeriodMs == 4
kResyncThresholdMs == 10

\* uint32_t expected_sample: its number of values, scaled down from 2^32
Uint32 == 8

\* how long a step can take
Stalls == {0, 1, 3, kResyncThresholdMs + 1, MaxStall}

\* while (... && now() < end_time) { expected_sample++; target_time = start_time
\* + expected_sample * kSamplePeriod
Cadence_Head ==
  /\ cad_pc = "head"
  /\ IF cad_now < EndTime
       THEN /\ cad_expected_sample' = (cad_expected_sample + 1) % Uint32
            /\ cad_target_time' = ((cad_expected_sample + 1) % Uint32) * kPeriodMs
            /\ cad_pc' = "sleep"
       ELSE /\ cad_pc' = "done"
            /\ UNCHANGED <<cad_expected_sample, cad_target_time>>
  /\ UNCHANGED <<cad_now, cad_sampled, cad_twice, cad_resync>>
  /\ UNCHANGED <<rbVars, pipeVars, ecgVars, envVars, fileVars>>

\* sleep_until(target_time) returns at target_time or later; ReadVoltage
\* returns a voltage or nullopt (continue)
Cadence_SleepRead ==
  /\ cad_pc = "sleep"
  /\ \E d \in Stalls :
       cad_now' = (IF cad_now > cad_target_time THEN cad_now ELSE cad_target_time) + d
  /\ \E read_ok \in BOOLEAN : cad_pc' = IF read_ok THEN "add" ELSE "head"
  /\ cad_resync' = None
  /\ UNCHANGED <<cad_expected_sample, cad_target_time, cad_sampled, cad_twice>>
  /\ UNCHANGED <<rbVars, pipeVars, ecgVars, envVars, fileVars>>

\* AddData; now = steady_clock::now(); delay = now - target_time; when delay >
\* 10 ms: expected_sample = elapsed_us / kPeriodUs, narrowed to uint32_t
Cadence_AddResync ==
  /\ cad_pc = "add"
  /\ cad_sampled' = cad_sampled \cup {cad_expected_sample}
  /\ cad_twice' = (cad_twice \/ cad_expected_sample \in cad_sampled)
  /\ \E d \in Stalls :
       LET now == cad_now + d
           delay == now - cad_target_time IN
         /\ cad_now' = now
         /\ IF delay > kResyncThresholdMs
              THEN /\ cad_expected_sample' = (now \div kPeriodMs) % Uint32
                   /\ cad_resync' = Some(now)
              ELSE /\ UNCHANGED cad_expected_sample
                   /\ cad_resync' = None
  /\ cad_pc' = "head"
  /\ UNCHANGED cad_target_time
  /\ UNCHANGED <<rbVars, pipeVars, ecgVars, envVars, fileVars>>

NextCad == Cadence_Head \/ Cadence_SleepRead \/ Cadence_AddResync

SpecCad == Init /\ [][NextCad]_vars

(***************************************************************************)
(* Pipeline claims, checked under Spec (C3 under LiveSpec)                 *)
(***************************************************************************)
IsPrefix(s, t) == Len(s) <= Len(t) /\ SubSeq(t, 1, Len(s)) = s

\* FileManager::Stop has joined the writer and Close has closed both streams
FilesClosed == wr_joined /\ ~files_open

\* C1 -- End-to-end no data loss: as long as no AddData has found RB-raw or
\* RB-class full, the samples written to the files are, in order and without
\* repetition, a prefix of the samples the acquisition loop added to RB-raw, and
\* once the files are closed they are all of them -- whether acquisition ended
\* by duration or by a shutdown signal arriving at any point.
NoDataLoss ==
  ~overflow => /\ IsPrefix(written, added)
               /\ FilesClosed => written = added

\* C1 witness: a signal interrupted an acquisition that had added three samples
\* (so the analyzer has trimmed its window); nothing overflowed, the files are
\* closed and hold the three samples.
NoDataLossWitness ==
  /\ FilesClosed /\ ~overflow /\ path = "graceful" /\ ~elapsed
  /\ Len(added) >= 3 /\ written = added

\* The steps of the shutdown sequence that must precede Run's return
StopsDone == an_stop_called /\ wr_stop_called /\ tcp_stopped

\* C2 -- Shutdown ordering: Analyzer.Stop is invoked only after the acquisition
\* thread has been joined; Writer.Stop only after the analyzer thread has shut
\* down RB-class and been joined; the TCP server is touched by the Application
\* only after the writer thread has been joined and both files are closed; and
\* Application::Run returns only after all of these.
ShutdownOrdering ==
  /\ an_stop_called => acq_joined
  /\ wr_stop_called => (an_joined /\ rbClass.shutdown)
  /\ tcp_touched => FilesClosed
  /\ main_pc = "Returned" => StopsDone

\* C2 witness: Run has returned on the "Application not started" branch after a
\* signal; no stage was stopped, the files and the listening socket are open.
EarlyReturnWitness ==
  /\ main_pc = "Returned" /\ shutdown_requested /\ path = "none"
  /\ ~an_stop_called /\ ~wr_stop_called /\ ~tcp_touched
  /\ files_open /\ server_socket

\* Run has returned and no thread of the pipeline is running or blocked
Terminated ==
  /\ main_pc = "Returned"
  /\ acq_pc \in {"off", "done"} /\ an_pc \in {"off", "done"}
  /\ wr_pc \in {"off", "done"} /\ tcp_pc \in {"off", "done"}
  /\ client_mutex = "none"

\* C3 -- Termination: in a run whose Start succeeded, once a shutdown has been
\* requested or the acquisition duration has elapsed, fair scheduling leads to
\* a state where the acquisition, analyzer, writer and server threads have all
\* ended and Application::Run has returned, nobody holding the client mutex.
Termination ==
  (main_pc \notin {"Start", "Exit"} /\ (shutdown_requested \/ elapsed)) ~> Terminated

\* C3 witness: a run interrupted by a signal while samples were being acquired
\* and a client was connected has ended with all four threads finished.
TerminationWitness ==
  /\ Terminated /\ path = "graceful" /\ shutdown_requested
  /\ acq_pc = "done" /\ an_pc = "done" /\ wr_pc = "done" /\ tcp_pc = "done"
  /\ Len(added) >= 1 /\ nclients >= 1

(***************************************************************************)
(* Ring-buffer claims, checked under SpecRB (C8 under LiveRB)              *)
(***************************************************************************)

\* C4 -- Ring buffer size invariant: in every reachable state of a buffer of
\* capacity C >= 1, head and tail lie in 0..C-1, Size() <= C, full implies
\* head = tail, Size() is (head - tail) mod C when not full and C when full, and
\* Size() equals the number of elements added and retained but not yet consumed.
RingBufferSizeInvariant ==
  /\ rb.max_size >= 1
  /\ rb.head \in 0..(rb.max_size - 1)
  /\ rb.tail \in 0..(rb.max_size - 1)
  /\ Size(rb) <= rb.max_size
  /\ (rb.full => rb.head = rb.tail)
  /\ Size(rb) = IF rb.full THEN rb.max_size
                ELSE (rb.head - rb.tail + rb.max_size) % rb.max_size
  /\ Size(rb) = unreadCount

\* C4 witness: the indices have wrapped (head behind tail) after an overwrite and
\* a consume.
SizeInvariantWitness ==
  /\ Len(accepted) > rb.max_size
  /\ consumed # <<>>
  /\ rb.head < rb.tail
  /\ ~rb.full

\* C5, state part: when every stored AddData came before every consume and at
\* least C values were stored (x_1 .. x_{C+k}), the values consumed so far are
\* x_{k+1}, x_{k+2}, ... in order, at most C of them, and after C of them the
\* buffer is empty.
OverwriteKeepsLastC ==
  LET n == Len(accepted)
      k == n - rb.max_size
  IN (~addAfterConsume /\ k >= 0) =>
       /\ Len(consumed) <= rb.max_size
       /\ \A i \in 1..Len(consumed) : consumed[i] = accepted[k + i]
       /\ (Len(consumed) = rb.max_size => Empty(rb))

\* C5, step part: an AddData on a full buffer drops the oldest unread element
\* and no other, and appends the new value.
OverwriteDropsOldest ==
  (nextId' # nextId /\ Full(rb) /\ ~rb.shutdown) =>
     Contents(rb') = Append(Tail(Contents(rb)), nextId)

\* C5 -- Overwrite-on-full: after AddData of x_1 .. x_{C+k} with no intervening
\* consume the next C consumes return x_{k+1} .. x_{C+k} in order and leave the
\* buffer empty; AddData on a full buffer drops exactly the oldest unread element.
OverwriteOnFull == [](OverwriteKeepsLastC) /\ [][OverwriteDropsOldest]_vars

\* C5 witness: more than C values were stored, then C consumes, no add in between.
OverwriteWitness ==
  /\ ~addAfterConsume
  /\ Len(accepted) > rb.max_size
  /\ Len(consumed) = rb.max_size

\* C6 -- FIFO for retained elements: the values returned to the consumer are an
\* order-preserving subsequence of the values added, none returned twice.  The
\* values added are 1, 2, 3, ... so a subsequence is a strictly increasing
\* sequence of stored values.
FifoRetained ==
  /\ \A i \in 1..Len(consumed) : \E j \in 1..Len(accepted) : consumed[i] = accepted[j]
  /\ \A i, j \in 1..Len(consumed) : i < j => consumed[i] < consumed[j]

\* C6 witness: values consumed around a value that was overwritten while the
\* consumer was active.
FifoWitness ==
  /\ addAfterConsume
  /\ \E i \in 1..(Len(consumed) - 1) : consumed[i + 1] > consumed[i] + 1

\* C7 -- Consume returns None iff the buffer it finds when it returns is empty
\* with the shutdown flag set (and then changes nothing); every other return
\* yields the element at tail, advances tail by one modulo the capacity, clears
\* full and leaves head, the slots and the shutdown flag alone.
ConsumeContract ==
  [][(c_tick' # c_tick /\ c_last' = "Consume") =>
       /\ (c_ret' = None) <=> (Empty(rb) /\ rb.shutdown)
       /\ (c_ret' = None) => (rb' = rb)
       /\ (c_ret' # None) =>
            /\ c_ret' = Some(rb.buffer[rb.tail])
            /\ rb' = [rb EXCEPT !.tail = (rb.tail + 1) % rb.max_size, !.full = FALSE]
     ]_vars

\* C7 witness: Consume has returned elements and then None.
ConsumeContractWitness ==
  /\ c_last = "Consume"
  /\ c_ret = None
  /\ consumed # <<>>

\* C8 -- Shutdown wake-up: a consumer inside Consume on an empty buffer whose
\* shutdown flag has been set eventually returns None, wherever it was in its
\* predicate check and wait when Shutdown ran.
ShutdownWakeup ==
  (c_pc \in {"towait", "waiting", "woken"} /\ rb.shutdown /\ Empty(rb))
     ~> (c_pc = "idle" /\ c_ret = None)

\* C8 witness: the consumer was blocked on the empty buffer when Shutdown set
\* the flag, and its Consume has returned None.
ShutdownWakeupWitness ==
  /\ blockedAtShutdown
  /\ c_pc = "idle"
  /\ c_last = "Consume"
  /\ c_ret = None
  /\ postShut # <<>>

\* C9 -- Post-shutdown producer: an AddData that runs with the shutdown flag set
\* changes nothing of the buffer (head, tail, full, slots; hence Size, Empty, Full).
PostShutdownProducer ==
  [][(nextId' # nextId /\ rb.shutdown) => (rb' = rb)]_vars

\* C9 witness: an AddData ran after Shutdown on a buffer still holding elements.
PostShutdownWitness ==
  /\ rejected >= 1
  /\ rb.shutdown
  /\ ~Empty(rb)

\* C10 -- Shutdown does not discard: with n elements in the buffer when
\* Shutdown sets the flag, the next n Consume calls return them in FIFO order
\* and every later one returns None.
ShutdownKeepsData ==
  \A i \in 1..Len(postShut) :
     postShut[i] = IF i <= Len(atShutdown) THEN Some(atShutdown[i]) ELSE None

\* C10 witness: two elements were unread at Shutdown; Consume returned both and
\* then None.
ShutdownKeepsDataWitness ==
  /\ rb.shutdown
  /\ Len(atShutdown) = 2
  /\ Len(postShut) = 3

\* C11 -- TryConsume is the non-blocking variant of Consume: whenever a
\* TryConsume call returns, if Consume would not have blocked on the buffer the
\* call found (non-empty, or shut down) the call returns what Consume would
\* return and leaves the state Consume would leave -- the tail element of a
\* non-empty buffer also after Shutdown -- and otherwise it returns None and
\* leaves the buffer as it was.
TryConsumeAsConsume ==
  [][(c_tick' # c_tick /\ c_last' = "TryConsume") =>
       IF ConsumeReady(rb)
         THEN c_ret' = ConsumeResult(rb) /\ rb' = ConsumeState(rb)
         ELSE c_ret' = None /\ rb' = rb]_vars

\* C11 witness: TryConsume has returned None on a buffer that is shut down and
\* still holds unread elements (Consume returns the tail element there).
TryConsumeAfterShutdownWitness ==
  /\ c_last = "TryConsume" /\ c_ret = None
  /\ rb.shutdown /\ ~Empty(rb)

\* C12 -- Shutdown is idempotent and changes only the flag: every Shutdown call
\* leaves head, tail, full and the stored elements as they were and the flag
\* set, a call on a buffer already shut down changes nothing, and applying
\* Shutdown twice to any reachable buffer gives what applying it once gives.
ShutdownIdempotent ==
  /\ [](ShutdownState(ShutdownState(rb)) = ShutdownState(rb))
  /\ [][shutCalls' # shutCalls =>
          /\ rb' = [rb EXCEPT !.shutdown = TRUE]
          /\ rb.shutdown => rb' = rb]_vars

\* C12 witness: Shutdown has been called twice on a buffer whose indices have
\* wrapped and which holds unread elements.
ShutdownIdempotentWitness ==
  /\ shutCalls = 2 /\ rb.shutdown
  /\ ~Empty(rb) /\ rb.head <= rb.tail /\ Len(accepted) > rb.max_size

(***************************************************************************)
(* Claims on stopping and on the file server, checked under Spec           *)
(***************************************************************************)
\* What a Stop call can touch: flags, ring buffers, file streams, sockets,
\* the threads and whether they have been joined
StageState ==
  <<running, processing, writing, tcp_running, files_ready, rbRaw, rbClass,
    files_open, server_socket, client_socket, new_client_socket, closed_clients,
    client_mutex, acq_pc, an_pc, wr_pc, tcp_pc, acq_joined, an_joined, wr_joined>>

\* the caller is inside a Stop call made after the first call of that stage
\* returned
SecondStopInProgress ==
  \/ main_pc \in {"AnStopAgain", "WrStopAgain"}
  \/ main_pc = "TcpStop" /\ tcp_stopped
  \/ main_pc = "AppStop" /\ app_stopped

\* a step of such a call, its entry included
SecondStopStep ==
  /\ main_pc' # main_pc
  /\ \/ SecondStopInProgress
     \/ main_pc = "Returned" /\ main_pc' \in {"AnStopAgain", "WrStopAgain", "TcpStop"}
     \/ main_pc = "Returned" /\ main_pc' = "AppStop" /\ app_stopped

\* C13 -- Stop is idempotent for every stage: a second call of
\* ECGAnalyzer::Stop, FileManager::Stop, TCPFileServer::Stop or
\* Application::Stop, made after the first has returned, can always take its
\* next step (it does not block), and none of its steps changes a flag, a ring
\* buffer, a file stream, a socket, a thread or a thread's joined status.
StopIdempotent ==
  /\ [](SecondStopInProgress => ENABLED (StopCalls \/ TCPFileServer_Stop))
  /\ [][SecondStopStep => UNCHANGED StageState]_vars

\* C13 witness: after a run ended by a signal with samples written, all four
\* stages have had their Stop called a second time, and the calls returned.
StopIdempotentWitness ==
  /\ main_pc = "Returned" /\ path = "graceful" /\ Len(written) >= 1
  /\ second_stops = {"app", "analyzer", "writer", "server"}

\* C18 -- Files are final before they are served: a FILES header is sent only
\* when FileManager::Stop has returned with both files closed; the server
\* thread enters SendAvailableFiles on its own only with files_ready set; and
\* files_ready is first set by the Application's call, made after the writer
\* stopped.
FilesFinalBeforeServed ==
  /\ [](sentTo # <<>> => FilesClosed)
  /\ [](files_ready => (FilesClosed /\ send_calls >= 1))
  /\ [][sentTo' # sentTo => FilesClosed]_vars
  /\ [][(tcp_pc = "ready" /\ tcp_pc' = "sendlock") => files_ready]_vars
  /\ [][(~files_ready /\ files_ready') =>
          (main_pc = "SendLock" /\ main_pc' # main_pc /\ FilesClosed)]_vars

\* C18 witness: the server thread is inside a SendAvailableFiles call it made on
\* its own, for a client that connected after the Application set files_ready.
FilesFinalWitness ==
  /\ tcp_pc = "sendbody" /\ client_mutex = "srv" /\ client_socket # NoSocket
  /\ files_ready /\ FilesClosed /\ Len(written) >= 1

\* the Application is inside TCPFileServer::Stop, called by Run or by
\* GracefulShutdown
InFirstTcpStop ==
  /\ main_pc \in {"TcpStop", "TcpStopClient", "TcpStopServer", "TcpJoin"}
  /\ ~tcp_stopped

\* C19 -- On every end-of-run path the Application calls SendAvailableFiles
\* exactly once, after the writer has closed its files and before
\* TCPFileServer::Stop: never more than one call, none before the files are
\* closed, and when Stop is entered, and when Run returns from either path, the
\* one call has been made and files_ready is set.
SendOnceBeforeStop ==
  /\ send_calls <= 1
  /\ send_calls >= 1 => FilesClosed
  /\ InFirstTcpStop => (send_calls = 1 /\ files_ready)
  /\ (main_pc = "Returned" /\ path # "none") => (send_calls = 1 /\ files_ready)

\* C19 witness: GracefulShutdown has stopped the server and Run has returned
\* without any SendAvailableFiles call: no client was connected.
NoSendCallWitness ==
  /\ main_pc = "Returned" /\ path = "graceful" /\ tcp_stopped
  /\ send_calls = 0 /\ ~files_ready /\ FilesClosed

\* C20 -- SendAvailableFiles closes the session: every return of a
\* SendAvailableFiles call that was entered with a client registered leaves
\* that client's socket closed and no client registered, on every branch.
SendClosesSession ==
  [][(client_mutex # "none" /\ client_mutex' = "none") =>
       (client_socket' = NoSocket /\ client_socket \in closed_clients')]_vars

\* C20 witness: a SendAvailableFiles call has run its body for the client (the
\* server thread passed the files_ready test after registering it, or the
\* Application found it registered) and has returned, and the client is still
\* registered and its socket open.
SessionLeftOpenWitness ==
  /\ client_socket # NoSocket /\ client_socket \notin closed_clients
  /\ client_mutex = "none" /\ files_ready
  /\ tcp_pc = "head" /\ main_pc = "TcpStop" /\ path = "normal"

(***************************************************************************)
(* Analyzer claims, checked under SpecAn                                   *)
(***************************************************************************)
\* voltage and timestamp of each sample of a sequence, classification left out
Unclassified(seq) ==
  [k \in 1..Len(seq) |-> [voltage |-> seq[k].voltage, timestamp |-> seq[k].timestamp]]

\* samples erased from the front of samples_ so far
Removed ==
  IF ecg.samples = <<>> THEN 0 ELSE ecg.samples[1].timestamp

\* C14 -- Analyzer order preservation and exactly-once emission: when the
\* analyzer thread has finished, the samples it added to RB-class are, in
\* length, voltages, timestamps and order, the samples it consumed; before
\* that they are a prefix of them; emitted timestamps never decrease.
AnalyzerOrderPreserved ==
  /\ IsPrefix(Unclassified(ecg_hist.emitted), Unclassified(ecg_hist.consumed))
  /\ ecg_hist.done =>
       Unclassified(ecg_hist.emitted) = Unclassified(ecg_hist.consumed)
  /\ \A i \in 1..(Len(ecg_hist.emitted) - 1) :
       ecg_hist.emitted[i].timestamp <= ecg_hist.emitted[i + 1].timestamp

\* C14 witness: the thread has finished a stream of MaxStream samples in which
\* the window was trimmed, a beat was detected and a classified sample emitted.
AnalyzerOrderWitness ==
  /\ ecg_hist.done /\ Len(ecg_hist.consumed) = MaxStream
  /\ Removed > 0 /\ ecg.detected_beats # <<>>
  /\ \E k \in 1..Len(ecg_hist.emitted) : ecg_hist.emitted[k].classification = "T"

\* C15 -- At-most-one classification: no sample is assigned two different
\* landmark tags while it is in the analyzer, and an emitted sample whose
\* classification is not Normal was assigned that classification as a landmark
\* of some beat.
AtMostOneClassification ==
  /\ \A x, y \in ecg_hist.tags : x[1] = y[1] => x[2] = y[2]
  /\ \A k \in 1..Len(ecg_hist.emitted) :
       ecg_hist.emitted[k].classification # "Normal" =>
         <<ecg_hist.emitted[k].timestamp, ecg_hist.emitted[k].classification>>
           \in ecg_hist.tags

\* C15 witness: a sample was tagged Q and then P by the same beat, and left the
\* analyzer as P.
RetaggedSampleWitness ==
  \E k \in 1..Len(ecg_hist.emitted) :
    /\ <<ecg_hist.emitted[k].timestamp, "Q">> \in ecg_hist.tags
    /\ <<ecg_hist.emitted[k].timestamp, "P">> \in ecg_hist.tags
    /\ ecg_hist.emitted[k].classification = "P"

\* C16 -- Beat consistency: for every beat, p_complete and t_complete each
\* imply qrs_complete; with QRS and P complete p_pos < q_pos < r_pos < s_pos;
\* with T complete as well s_pos < t_pos.
BeatConsistency ==
  \A k \in 1..Len(ecg.detected_beats) :
    LET beat == ecg.detected_beats[k]
    IN  /\ beat.p_complete => beat.qrs_complete
        /\ beat.t_complete => beat.qrs_complete
        /\ (beat.qrs_complete /\ beat.p_complete) =>
             (beat.p_pos < beat.q_pos /\ beat.q_pos < beat.r_pos
                /\ beat.r_pos < beat.s_pos)
        /\ (beat.qrs_complete /\ beat.p_complete /\ beat.t_complete) =>
             beat.s_pos < beat.t_pos

\* C16 witness: a beat whose P position is its Q position, the window still
\* holding every sample consumed (a rising ramp into the R peak).
RampBeatWitness ==
  /\ Removed = 0
  /\ \E k \in 1..Len(ecg.detected_beats) :
       LET beat == ecg.detected_beats[k]
       IN  /\ beat.qrs_complete /\ beat.p_complete
           /\ beat.p_pos = beat.q_pos /\ beat.q_pos < beat.r_pos
           /\ \A i \in 0..(beat.r_pos - 1) :
                VoltageAt(ecg.samples, i) <= VoltageAt(ecg.samples, i + 1)

\* the step is a pass of ProcessSample
SampleProcessed == Len(ecg_hist'.consumed) > Len(ecg_hist.consumed)

\* the sample before the newest one of the stream has the shape of a peak and is
\* not within the refractory period of the last recorded R (stream positions)
PeakOutsideRefractory(stream, recorded) ==
  LET pos == Len(stream) - 2
  IN  /\ Len(stream) >= 3 /\ pos >= 1
      /\ IsPeakShape(stream, pos)
      /\ recorded # <<>> => pos - recorded[Len(recorded)] >= kRefractoryPeriod

\* C17 -- Refractory enforcement: any two recorded beats have R positions at
\* least kRefractoryPeriod samples apart in stream order, also when the window
\* has been trimmed past the earlier one; a sample with the shape of a peak is
\* recorded exactly when no R is recorded yet or the last recorded R is at
\* least kRefractoryPeriod samples before it (kRefractoryPeriod - 1: rejected,
\* kRefractoryPeriod: accepted); the recorded beats are the analyzer's beats.
RefractoryEnforced ==
  /\ [](\A i, j \in 1..Len(ecg_hist.r_stamps) :
          i < j => ecg_hist.r_stamps[j] - ecg_hist.r_stamps[i] >= kRefractoryPeriod)
  /\ [](/\ Len(ecg.detected_beats) = Len(ecg_hist.r_stamps)
        /\ \A k \in 1..Len(ecg.detected_beats) :
             SizeAdd(ecg.detected_beats[k].r_pos, Removed) = ecg_hist.r_stamps[k])
  /\ [][SampleProcessed =>
          ecg_hist'.r_stamps =
            IF PeakOutsideRefractory(ecg_hist'.consumed, ecg_hist.r_stamps)
              THEN Append(ecg_hist.r_stamps, Len(ecg_hist'.consumed) - 2)
              ELSE ecg_hist.r_stamps]_vars

\* C17 witness: a peak kRefractoryPeriod - 1 samples after the first recorded R
\* was rejected, and a second R was recorded after the window had been trimmed
\* past the first (whose r_pos had wrapped below zero before this pass).
RefractoryWitness ==
  /\ Len(ecg_hist.r_stamps) = 2 /\ ~ecg_hist.done
  /\ ecg_hist.r_stamps[1] + 1 < Removed
  /\ ecg.detected_beats[1].r_pos >= Len(ecg.samples)
  /\ ecg.detected_beats[2].r_pos = Len(ecg.samples) - 2
  /\ LET p == ecg_hist.r_stamps[1] + kRefractoryPeriod - 1
     IN  /\ p + 2 <= Len(ecg_hist.consumed)
         /\ IsPeakShape(ecg_hist.consumed, p)

(***************************************************************************)
(* Claims on the file server and on signals, checked under SpecNet         *)
(***************************************************************************)
\* C21 -- TCPFileServer::Stop closes everything: once Stop has returned the
\* run flag is clear, the server thread has ended, the listening socket is
\* closed, no client socket is registered or held by the server thread, and
\* every socket accept returned has been closed.
StopClosesEverything ==
  tcp_stopped =>
    /\ ~tcp_running /\ tcp_pc \in {"off", "done"} /\ ~server_socket
    /\ client_socket = NoSocket /\ new_client_socket = NoSocket
    /\ \A c \in 1..nclients : c \in closed_clients

\* C21 witness: Stop has returned and Run after it, the server thread has
\* ended, and a client socket is still registered and open.
StopLeavesClientWitness ==
  /\ tcp_stopped /\ main_pc = "Returned" /\ tcp_pc = "done" /\ ~tcp_running
  /\ client_socket # NoSocket /\ client_socket \notin closed_clients

\* the step is one of the Application's accesses to client_socket_
\* (HasConnectedClient, SendAvailableFiles, the client block of Stop)
MainClientAccess ==
  /\ main_pc \in {"HasClient", "SendLock", "SendBody", "TcpStopClient"}
  /\ main_pc' # main_pc

\* the step is one of the server thread's accesses to client_socket_
\* (registering an accepted client, SendAvailableFiles)
ServerClientAccess ==
  /\ tcp_pc \in {"store", "sendlock", "sendbody"}
  /\ tcp_pc' # tcp_pc

\* C22 -- Single client, latest wins: every socket accept has returned is
\* closed, except the one registered and the one the server thread is about to
\* register; a registered client is replaced only by a step that closes it;
\* client_socket_ is read and written only by a thread that takes the free
\* client mutex for the access or already holds it, and only one thread holds it.
SingleClientLatestWins ==
  /\ [](\A c \in 1..nclients :
          c \in closed_clients \/ c = client_socket \/ c = new_client_socket)
  /\ [](/\ client_mutex = "main" => main_pc = "SendBody"
        /\ client_mutex = "srv" => tcp_pc = "sendbody")
  /\ [][(client_socket # NoSocket /\ client_socket' # client_socket) =>
          client_socket \in closed_clients']_vars
  /\ [][/\ MainClientAccess => client_mutex \in {"none", "main"}
        /\ ServerClientAccess => client_mutex \in {"none", "srv"}
        /\ (client_socket' # client_socket \/ closed_clients' # closed_clients) =>
             (MainClientAccess \/ ServerClientAccess)]_vars

\* C22 witness: the second client has replaced the first, which was still
\* registered and is now closed; nothing was sent to either.
LatestWinsWitness ==
  /\ nclients = 2 /\ client_socket = 2 /\ closed_clients = {1}
  /\ sentTo = <<>> /\ tcp_pc = "ready" /\ tcp_running

\* the server thread finishes the step it is at
ServerStepFrom(pc) == tcp_pc = pc /\ tcp_pc' # pc

SignalsCoalesced ==
  (main_pc = "Returned" /\ sigCount >= 1 /\ sig_pc = "idle") =>
    /\ shutdown_requested /\ ~running
    /\ path \in {"graceful", "normal"}
    /\ acq_joined /\ StopsDone

\* C24 witness: two signals were delivered and Run has returned without running
\* the shutdown sequence.
NoSequenceAfterSignalsWitness ==
  /\ main_pc = "Returned" /\ sigCount = 2 /\ sig_pc = "idle"
  /\ shutdown_requested /\ ~running
  /\ path = "none" /\ ~acq_joined /\ ~an_stop_called /\ ~wr_stop_called /\ ~tcp_stopped

(***************************************************************************)
(* Claims on the FileManager, checked under SpecWr                         *)
(***************************************************************************)
\* C25 -- CSV and binary outputs are one-to-one: from a successful Init on, the
\* CSV rows, the binary records and the samples the writer consumed are equally
\* many (samples_written_ too), the i-th row and the i-th record carry the
\* timestamp, voltage and classification of the i-th consumed sample, both
\* streams are open or closed together, each flush leaves the same number of
\* rows and records on disk, and after Close that number is the number of
\* samples consumed.
CsvBinOneToOne ==
  fm_pc # "failed" =>
    /\ csv_stream.is_open = bin_stream.is_open
    /\ Len(csv_stream.data) = Len(fm_consumed)
    /\ Len(bin_stream.data) = Len(fm_consumed)
    /\ samples_written = Len(fm_consumed)
    /\ \A i \in 1..Len(fm_consumed) :
         /\ bin_stream.data[i].timestamp_us = fm_consumed[i].timestamp
         /\ csv_stream.data[i].timestamp_us =
              fm_consumed[i].timestamp - fm_consumed[1].timestamp
         /\ csv_stream.data[i].voltage = fm_consumed[i].voltage
         /\ csv_stream.data[i].classification \in {"N", "R"}
         /\ (csv_stream.data[i].classification = "R") =
              (fm_consumed[i].classification = "kR")
    /\ csv_stream.flushed = bin_stream.flushed
    /\ csv_stream.flushed <= Len(fm_consumed)
    /\ fm_pc = "closed" =>
         (~csv_stream.is_open /\ csv_stream.flushed = Len(fm_consumed))

\* C25 witness: the files are closed with MaxFileSamples samples in each, the
\* last of them written by FlushRemainingData after a flush of the first ones.
CsvBinWitness ==
  /\ fm_pc = "closed" /\ Len(fm_consumed) = MaxFileSamples
  /\ Len(csv_stream.data) = MaxFileSamples /\ bin_stream.flushed = MaxFileSamples
  /\ fm_count = 1 /\ first_timestamp = Some(2)
  /\ csv_stream.data[MaxFileSamples].timestamp_us + 2 =
       bin_stream.data[MaxFileSamples].timestamp_us

(***************************************************************************)
(* Claims on the writer and the acquisition loop, checked under Spec and   *)
(* LiveSpec                                                                *)
(***************************************************************************)
\* C26 -- The writer's reads are unblockable by shutdown: a running writer thread
\* that cannot take a step is inside Consume on an empty RB-class that is not
\* shut down; the writer thread ends only with writing_ cleared and RB-class
\* shut down and empty; and under fair scheduling every call of
\* FileManager::Stop made by the Application returns.
WriterUnblockable ==
  /\ []((wr_pc \notin {"off", "done"} /\ ~ENABLED WriterThread) =>
          /\ wr_pc \in {"batch", "ebatch", "flush"}
          /\ Empty(rbClass) /\ ~rbClass.shutdown)
  /\ [](wr_pc = "done" => (~writing /\ rbClass.shutdown /\ Empty(rbClass)))
  /\ (wr_stop_called ~> wr_joined)

\* C26 witness: FileManager::Stop has cleared writing_ and waits in join while
\* the writer drains samples left in the shut-down RB-class.
WriterDrainsWitness ==
  /\ wr_stop_called /\ ~wr_joined /\ ~writing /\ main_pc = "JoinWr"
  /\ wr_pc = "ebatch" /\ rbClass.shutdown /\ Size(rbClass) >= 1

\* the acquisition thread finishes the step it is at
AcquisitionStepFrom(pc) == acq_pc = pc /\ acq_pc' # pc

\* C27 -- Acquisition exit protocol: the loop is left only from its head or
\* after the sleep (flags, duration, exception); the next step of the thread
\* clears running_ and leaves RB-raw alone; the one after calls Shutdown on
\* RB-raw and ends the thread; RB-raw is never shut down while running_ is set;
\* no sample is added once the loop is left; and when the thread has ended the
\* analyzer's Consume on RB-raw is not blocked.
AcquisitionExitProtocol ==
  /\ [][(acq_pc' = "exit" /\ acq_pc # "exit") => acq_pc \in {"head", "sleep"}]_vars
  /\ [][AcquisitionStepFrom("exit") =>
          (acq_pc' = "shut" /\ ~running' /\ rbRaw' = rbRaw)]_vars
  /\ [][AcquisitionStepFrom("shut") =>
          (acq_pc' = "done" /\ ~running /\ rbRaw'.shutdown)]_vars
  /\ [][(acq_pc \in {"exit", "shut", "done"}) =>
          (added' = added /\ acq_pc' \in {"exit", "shut", "done"})]_vars
  /\ [](rbRaw.shutdown => ~running)
  /\ [](acq_pc = "done" => (~running /\ rbRaw.shutdown))
  /\ []((acq_pc = "done" /\ an_pc = "consume") => ENABLED ProcessingLoop_Consume)

\* C27 witness: the loop was left because ReadVoltage threw (no signal, duration
\* not over, nobody else cleared running_); the thread has cleared running_ and
\* shut RB-raw down, and the analyzer sits in Consume on the empty RB-raw.
ExitByExceptionWitness ==
  /\ acq_pc = "done" /\ ~shutdown_requested /\ ~elapsed /\ sigCount = 0
  /\ ~running /\ rbRaw.shutdown /\ Empty(rbRaw) /\ ~an_stop_called
  /\ an_pc = "consume" /\ Len(added) >= 1

\* ReadVoltage returned nullopt: the only step from after the sleep to the head
ReadFailureStep == acq_pc = "sleep" /\ acq_pc' = "head"

\* C28 -- A data-source read failure is non-fatal: the step in which ReadVoltage
\* returns nullopt for slot k adds nothing to RB-raw, leaves RB-raw, both flags
\* and k as they are and returns to the loop head, not to the exit; the next
\* iteration started from the head has slot k + 1; and the samples added never
\* outnumber the slots begun.
ReadFailureNonFatal ==
  /\ [][ReadFailureStep =>
          /\ rbRaw' = rbRaw /\ added' = added
          /\ running' = running /\ shutdown_requested' = shutdown_requested
          /\ expected_sample' = expected_sample]_vars
  /\ [][(AcquisitionStepFrom("head") /\ acq_pc' = "sleep") =>
          expected_sample' = expected_sample + 1]_vars
  /\ [][AcquisitionStepFrom("sleep") =>
          (acq_pc' = "exit" => expected_sample' = expected_sample)]_vars
  /\ [](Len(added) <= expected_sample)

\* C28 witness: two slots have been begun, the read of the first failed: the
\* loop is in slot 2 with no sample added and RB-raw empty and running.
ReadFailureWitness ==
  /\ acq_pc = "sleep" /\ expected_sample = 2 /\ added = <<>> /\ Empty(rbRaw)
  /\ running /\ ~shutdown_requested /\ ~rbRaw.shutdown

(***************************************************************************)
(* Claim on the cadence of the acquisition loop, checked under SpecCad     *)
(***************************************************************************)
\* C29 -- Cadence index is strictly monotone: each new iteration has a larger
\* expected-sample index than the one before; a resync never lowers the index;
\* the target time of the iteration after a resync is later than the time at
\* which the resync was computed; and no slot gets a second sample.
CadenceMonotone ==
  /\ [][(cad_pc = "head" /\ cad_pc' = "sleep") =>
          /\ cad_expected_sample' > cad_expected_sample
          /\ cad_resync # None => cad_target_time' > cad_resync[1]]_vars
  /\ [][(cad_pc = "add" /\ cad_pc' = "head") =>
          cad_expected_sample' >= cad_expected_sample]_vars
  /\ [](~cad_twice)

\* C29 witness: the index has wrapped and a sample has been added for a slot that
\* already had one.
SlotSampledTwiceWitness ==
  /\ cad_twice /\ cad_pc = "head"
  /\ cad_now >= Uint32 * kPeriodMs
  /\ cad_expected_sample \in cad_sampled

(***************************************************************************)
(* Claim on the indices of the analyzer, checked under SpecAn              *)
(***************************************************************************)
\* C30 -- Analyzer index invariants: in every analyzer state the beats have
\* strictly increasing r_pos, and every resolved position of every beat (r_pos;
\* q_pos and s_pos with qrs_complete; p_pos with p_complete; t_pos with
\* t_complete) is an index of the sample window; rebasing never takes a
\* position below zero.
AnalyzerIndexInvariants ==
  LET beats == ecg.detected_beats
      size == Len(ecg.samples)
  IN  /\ \A k \in 1..(Len(beats) - 1) : beats[k].r_pos < beats[k + 1].r_pos
      /\ \A k \in 1..Len(beats) :
           /\ beats[k].r_pos < size
           /\ beats[k].qrs_complete => (beats[k].q_pos < size /\ beats[k].s_pos < size)
           /\ beats[k].p_complete => beats[k].p_pos < size
           /\ beats[k].t_complete => beats[k].t_pos < size

\* C30 witness: the window has been trimmed past the Q point of a beat whose R
\* peak is still in it: the rebased q_pos has wrapped to the top of size_t.
WrappedPositionWitness ==
  /\ Removed > 0
  /\ \E k \in 1..Len(ecg.detected_beats) :
       LET beat == ecg.detected_beats[k]
       IN  /\ beat.qrs_complete
           /\ beat.r_pos < Len(ecg.samples)
           /\ beat.q_pos >= SizeT - Removed

(***************************************************************************)
(* Claims on the sample window of the analyzer, checked under SpecAn       *)
(***************************************************************************)
\* C31 -- Bounded analyzer window: between two passes of ProcessSample
\* last_transferred_pos_ is at most kTWindow and at most the size of samples_,
\* which is at most 2 * kTWindow; inside a pass, after push_back and before the
\* transfer, the size is at most 2 * kTWindow + 1 and last_transferred_pos_ at
\* most the size; the samples erased so far have all been added to RB-class.
BoundedAnalyzerWindow ==
  /\ [](/\ ecg.last_transferred_pos <= Len(ecg.samples)
        /\ ecg.last_transferred_pos <= kTWindow
        /\ Len(ecg.samples) <= 2 * kTWindow)
  /\ [](\A v \in Voltages :
          LET b == BeforeTransfer(ecg, Sample(v, Len(ecg_hist.consumed)))
          IN  /\ Len(b.samples) <= 2 * kTWindow + 1
              /\ b.last_transferred_pos <= Len(b.samples))
  /\ [](Removed <= Len(ecg_hist.emitted))
  /\ [][SampleProcessed =>
          /\ Removed' >= Removed
          /\ Removed' + ecg'.last_transferred_pos = Len(ecg_hist'.emitted)]_vars

\* C31 witness: a pass of ProcessSample has erased samples and left the window
\* at its largest size, 2 * kTWindow, with last_transferred_pos_ = kTWindow.
BoundedWindowWitness ==
  /\ ~ecg_hist.done /\ Removed >= 2
  /\ Len(ecg.samples) = 2 * kTWindow
  /\ ecg.last_transferred_pos = kTWindow

\* the samples the step adds to RB-class
NewlyEmitted ==
  SubSeq(ecg_hist'.emitted, Len(ecg_hist.emitted) + 1, Len(ecg_hist'.emitted))

\* C32 -- Transfer lag: a pass of ProcessSample adds a sample to RB-class only
\* when at least kTWindow samples consumed after it are in the window, so that
\* before the final transfer the last kTWindow samples consumed are not yet in
\* RB-class; ProcessFinalData adds exactly the samples not yet added, the ones
\* with fewer than kTWindow successors.
TransferLag ==
  /\ [](~ecg_hist.done =>
          /\ Len(ecg_hist.emitted) + kTWindow <= Len(ecg_hist.consumed)
               \/ ecg_hist.emitted = <<>>
          /\ Len(ecg_hist.consumed) - Len(ecg_hist.emitted) <= Len(ecg.samples))
  /\ [][SampleProcessed =>
          \A k \in 1..Len(NewlyEmitted) :
            NewlyEmitted[k].timestamp + kTWindow < Len(ecg_hist'.consumed)]_vars
  /\ [][ecg_hist'.done =>
          /\ Len(ecg_hist'.emitted) = Len(ecg_hist.consumed)
          /\ \A k \in 1..Len(NewlyEmitted) :
               NewlyEmitted[k].timestamp + kTWindow >= Len(ecg_hist.consumed)]_vars

\* C32 witness: the stream has ended after more than kTWindow samples: the
\* passes of ProcessSample had left the last kTWindow samples to the final
\* transfer, which has added them.
TransferLagWitness ==
  /\ ecg_hist.done
  /\ Len(ecg_hist.consumed) = kTWindow + 2
  /\ Len(ecg_hist.emitted) = kTWindow + 2
  /\ ecg.last_transferred_pos = 2

\* the landmark positions resolved between two states of detected_beats_, as
\* <<position, WaveType>>: R of a beat that is new, Q and S of a beat whose QRS
\* has been completed, P and T of a beat whose P or T has been completed
ResolvedBetween(old, new) ==
  LET IsNew(k) == k > Len(old)
  IN  {<<new[k].r_pos, "R">> : k \in {j \in 1..Len(new) : IsNew(j)}}
      \cup {<<new[k].q_pos, "Q">> :
              k \in {j \in 1..Len(new) :
                       new[j].qrs_complete /\ (IsNew(j) \/ ~old[j].qrs_complete)}}
      \cup {<<new[k].s_pos, "S">> :
              k \in {j \in 1..Len(new) :
                       new[j].qrs_complete /\ (IsNew(j) \/ ~old[j].qrs_complete)}}
      \cup {<<new[k].p_pos, "P">> :
              k \in {j \in 1..Len(new) :
                       new[j].p_complete /\ (IsNew(j) \/ ~old[j].p_complete)}}
      \cup {<<new[k].t_pos, "T">> :
              k \in {j \in 1..Len(new) :
                       new[j].t_complete /\ (IsNew(j) \/ ~old[j].t_complete)}}

\* the analyzer of the step's pass of ProcessSample when it calls
\* TransferProcessedSamples
PassBeforeTransfer ==
  BeforeTransfer(ecg, ecg_hist'.consumed[Len(ecg_hist'.consumed)])

\* every position of the set is the index of a sample of the window that has
\* not been handed to RB-class
NotYetEmitted(resolved, a) ==
  \A m \in resolved : a.last_transferred_pos <= m[1] /\ m[1] < Len(a.samples)

\* the sample of the stream a resolved window position stands for has been
\* added to RB-class with a landmark classification
EmittedAsLandmark(pos) ==
  LET stream_pos == SizeAdd(pos, Removed)
  IN  /\ stream_pos < Len(ecg_hist.emitted)
      /\ ecg_hist.emitted[stream_pos + 1].classification # "Normal"

\* C33 -- Classifications are final at emission (kTWindow >= 2 * kQSWindow +
\* kPWindow): whenever a pass of ProcessSample or ProcessFinalData resolves a
\* landmark position of a beat, that position is the index of a sample not yet
\* added to RB-class; and when the thread has finished, every resolved position
\* of every beat is a sample of the emitted stream carrying a landmark.
ClassificationsFinalAtEmission ==
  /\ kTWindow >= 2 * kQSWindow + kPWindow
  /\ [][SampleProcessed =>
          NotYetEmitted(ResolvedBetween(ecg.detected_beats,
                                        PassBeforeTransfer.detected_beats),
                        PassBeforeTransfer)]_vars
  /\ [][ecg_hist'.done =>
          NotYetEmitted(ResolvedBetween(ecg.detected_beats,
                                        ProcessCompleteBeats(ecg).detected_beats),
                        ecg)]_vars
  /\ [](ecg_hist.done =>
          \A k \in 1..Len(ecg.detected_beats) :
            LET beat == ecg.detected_beats[k]
            IN  /\ EmittedAsLandmark(beat.r_pos)
                /\ beat.qrs_complete =>
                     EmittedAsLandmark(beat.q_pos) /\ EmittedAsLandmark(beat.s_pos)
                /\ beat.p_complete => EmittedAsLandmark(beat.p_pos)
                /\ beat.t_complete => EmittedAsLandmark(beat.t_pos))

\* C33 witness: the P point of a beat has been resolved after the window was
\* trimmed past its Q point: q_pos had wrapped, CanCompleteP held, and p_pos is
\* kPWindow below it, the index of no sample; the thread has finished and the
\* samples before Q were emitted without a P.
LateLandmarkWitness ==
  /\ ecg_hist.done /\ Removed > 0
  /\ \E k \in 1..Len(ecg.detected_beats) :
       LET beat == ecg.detected_beats[k]
       IN  /\ beat.p_complete
           /\ beat.q_pos >= SizeT - Removed
           /\ beat.p_pos = SizeSub(beat.q_pos, kPWindow)
           /\ \A i \in 1..SizeAdd(beat.q_pos, Removed) + 1 :
                ecg_hist.emitted[i].classification # "P"

\* C34 -- R-peak rule: a pass of ProcessSample records a beat exactly when the
\* sample p before the one just consumed is higher than both its neighbours and
\* than kRThreshold and no beat is recorded yet or the last recorded R is at
\* least kRefractoryPeriod samples before p, and the beat recorded is at p;
\* ProcessFinalData records none; so every recorded R is strictly higher than
\* the samples before and after it (no plateau) and is neither the first nor
\* the last sample of the stream.
RPeakRule ==
  /\ [][SampleProcessed =>
          LET v(i) == ecg_hist'.consumed[i + 1].voltage
              p == Len(ecg_hist'.consumed) - 2
              last == ecg_hist.r_stamps[Len(ecg_hist.r_stamps)]
              recorded ==
                /\ p >= 1
                /\ v(p) > v(p - 1) /\ v(p) > v(p + 1) /\ v(p) > kRThreshold
                /\ ecg_hist.r_stamps = <<>> \/ p - last >= kRefractoryPeriod
          IN  /\ recorded => ecg_hist'.r_stamps = Append(ecg_hist.r_stamps, p)
              /\ ~recorded => ecg_hist'.r_stamps = ecg_hist.r_stamps
              /\ Len(ecg'.detected_beats) = Len(ecg_hist'.r_stamps)
              /\ recorded =>
                   SizeAdd(ecg'.detected_beats[Len(ecg'.detected_beats)].r_pos,
                           Removed') = p]_vars
  /\ [][ecg_hist'.done =>
          /\ ecg_hist'.r_stamps = ecg_hist.r_stamps
          /\ Len(ecg'.detected_beats) = Len(ecg.detected_beats)]_vars
  /\ [](\A k \in 1..Len(ecg_hist.r_stamps) :
          LET p == ecg_hist.r_stamps[k]
              v(i) == ecg_hist.consumed[i + 1].voltage
          IN  /\ 1 <= p /\ p + 2 <= Len(ecg_hist.consumed)
              /\ v(p) > v(p - 1) /\ v(p) > v(p + 1) /\ v(p) > kRThreshold)

\* C34 witness: a finished stream that begins and ends with a sample above the
\* threshold and higher than its neighbour, and holds a plateau above the
\* threshold and, at least kRefractoryPeriod later, a peak: the peak is the
\* one R recorded.
RPeakRuleWitness ==
  LET n == Len(ecg_hist.consumed)
      v(i) == ecg_hist.consumed[i + 1].voltage
  IN  /\ ecg_hist.done /\ n >= 8
      /\ v(0) > kRThreshold /\ v(0) > v(1)
      /\ v(n - 1) > kRThreshold /\ v(n - 1) > v(n - 2)
      /\ v(2) > kRThreshold /\ v(2) = v(3) /\ v(2) > v(1) /\ v(3) > v(4)
      /\ Len(ecg_hist.r_stamps) = 1
      /\ ecg_hist.r_stamps[1] >= 3 + kRefractoryPeriod

\* the earliest index of lowest / highest voltage among the positions lo..hi
EarliestLowest(s, lo, hi) ==
  CHOOSE i \in lo..hi :
    /\ \A j \in lo..hi : VoltageAt(s, i) <= VoltageAt(s, j)
    /\ \A j \in lo..(i - 1) : VoltageAt(s, i) < VoltageAt(s, j)

EarliestHighest(s, lo, hi) ==
  CHOOSE i \in lo..hi :
    /\ \A j \in lo..hi : VoltageAt(s, i) >= VoltageAt(s, j)
    /\ \A j \in lo..(i - 1) : VoltageAt(s, i) > VoltageAt(s, j)

\* lo..hi is a non-empty range of positions of the window
InWindow(s, lo, hi) == 0 <= lo /\ lo <= hi /\ hi < Len(s)

\* the landmarks the beat `new` has and the beat `old` had not are the extrema
\* of the windows [r - QS, r), (r, r + QS], [q - P, q) and (s, s + T]
SearchedAsClaimed(s, old, new) ==
  /\ (new.qrs_complete /\ ~old.qrs_complete) =>
       /\ InWindow(s, new.r_pos - kQSWindow, new.r_pos - 1)
       /\ new.q_pos = EarliestLowest(s, new.r_pos - kQSWindow, new.r_pos - 1)
       /\ InWindow(s, new.r_pos + 1, new.r_pos + kQSWindow)
       /\ new.s_pos = EarliestLowest(s, new.r_pos + 1, new.r_pos + kQSWindow)
  /\ (new.p_complete /\ ~old.p_complete) =>
       /\ InWindow(s, new.q_pos - kPWindow, new.q_pos - 1)
       /\ new.p_pos = EarliestHighest(s, new.q_pos - kPWindow, new.q_pos - 1)
  /\ (new.t_complete /\ ~old.t_complete) =>
       /\ InWindow(s, new.s_pos + 1, new.s_pos + kTWindow)
       /\ new.t_pos = EarliestHighest(s, new.s_pos + 1, new.s_pos + kTWindow)

\* C35 -- Landmark search windows: whenever ProcessCompleteBeats completes the
\* QRS, the P or the T of a beat (in a pass of ProcessSample or in
\* ProcessFinalData), q_pos is the earliest index of lowest voltage in
\* [r_pos - kQSWindow, r_pos), s_pos the one in (r_pos, r_pos + kQSWindow],
\* p_pos the earliest index of highest voltage in [q_pos - kPWindow, q_pos)
\* and t_pos the one in (s_pos, s_pos + kTWindow].
LandmarkSearchWindows ==
  /\ [][SampleProcessed =>
          LET b == PassBeforeTransfer
          IN  \A k \in 1..Len(b.detected_beats) :
                SearchedAsClaimed(b.samples,
                                  IF k <= Len(ecg.detected_beats)
                                    THEN ecg.detected_beats[k]
                                    ELSE Beat(b.detected_beats[k].r_pos),
                                  b.detected_beats[k])]_vars
  /\ [][ecg_hist'.done =>
          \A k \in 1..Len(ecg.detected_beats) :
            SearchedAsClaimed(ecg.samples, ecg.detected_beats[k],
                              ProcessCompleteBeats(ecg).detected_beats[k])]_vars

\* C35 witness: QRS and P of a beat have just been completed in an untrimmed
\* window, the sample at q_pos being higher than each of the kPWindow samples
\* before it: the P search has returned q_pos, the end of its range.
PWindowIncludesQWitness ==
  /\ Removed = 0 /\ ~ecg_hist.done
  /\ \E k \in 1..Len(ecg.detected_beats) :
       LET beat == ecg.detected_beats[k]
       IN  /\ beat.qrs_complete /\ beat.p_complete /\ ~beat.t_complete
           /\ Len(ecg.samples) = beat.r_pos + kQSWindow + 1
           /\ beat.q_pos >= kPWindow /\ beat.q_pos < beat.r_pos
           /\ \A i \in (beat.q_pos - kPWindow)..(beat.q_pos - 1) :
                VoltageAt(ecg.samples, i) < VoltageAt(ecg.samples, beat.q_pos)
           /\ beat.p_pos = beat.q_pos

(***************************************************************************)
(* Claim on the time base of the CSV file, checked under SpecWr            *)
(***************************************************************************)
\* C36 -- Stable CSV time base: first_timestamp_ is empty until the first
\* WriteSample, holds the timestamp of the first sample written from then on
\* and never changes; the first CSV row has timestamp 0; with samples arriving
\* in acquisition order the timestamps of the rows never decrease and each is
\* the difference of the sample's timestamp and the first one's, without
\* wrapping below zero.
StableCsvTimeBase ==
  /\ [](first_timestamp = None <=> fm_consumed = <<>>)
  /\ [](fm_consumed # <<>> => first_timestamp = Some(fm_consumed[1].timestamp))
  /\ [][first_timestamp # None => first_timestamp' = first_timestamp]_vars
  /\ [](csv_stream.data # <<>> => csv_stream.data[1].timestamp_us = 0)
  /\ [](\A i \in 1..(Len(csv_stream.data) - 1) :
          csv_stream.data[i].timestamp_us <= csv_stream.data[i + 1].timestamp_us)
  /\ [](\A i \in 1..Len(csv_stream.data) :
          csv_stream.data[i].timestamp_us =
            fm_consumed[i].timestamp - fm_consumed[1].timestamp)

\* C36 witness: MaxFileSamples rows written from samples whose first timestamp
\* is not zero: the first row is at 0, the last at the distance of the last
\* sample from the first, and first_timestamp_ is still the first timestamp.
StableTimeBaseWitness ==
  /\ Len(csv_stream.data) = MaxFileSamples
  /\ first_timestamp = Some(2)
  /\ fm_consumed[MaxFileSamples].timestamp = MaxStamp
  /\ csv_stream.data[1].timestamp_us = 0
  /\ csv_stream.data[MaxFileSamples].timestamp_us = MaxStamp - 2

(***************************************************************************)
(* Claims on the shutdown of the pipeline, checked under Spec              *)
(***************************************************************************)
\* C37 -- No sample is dropped by a shutdown flag inside the pipeline: RB-raw
\* is shut down only when the acquisition loop has made its last AddData, and
\* RB-class only when the analyzer has read RB-raw to empty after its shutdown
\* and has finished its final transfer; the acquisition thread is never about
\* to call AddData on a shut-down RB-raw, nor the analyzer on a shut-down
\* RB-class, and every AddData of acquisition stores its sample.
NoAddAfterShutdown ==
  /\ [](rbRaw.shutdown => acq_pc \in {"done"})
  /\ [](rbClass.shutdown =>
          /\ an_pc = "done" /\ xfer_i >= Len(samples)
          /\ rbRaw.shutdown /\ Empty(rbRaw))
  /\ [](acq_pc = "add" => ~rbRaw.shutdown)
  /\ [](an_pc \in {"xfer", "final"} => ~rbClass.shutdown)
  /\ [][(acq_pc = "add" /\ acq_pc' # "add") =>
          (added' = Append(added, Len(added) + 1) /\ ~Empty(rbRaw'))]_vars
  /\ [][((an_pc = "xfer" /\ (xfer_i' # xfer_i \/ an_pc' # "xfer"))
           \/ (an_pc = "final" /\ xfer_i' # xfer_i)) =>
          (~rbClass.shutdown /\ ~Empty(rbClass'))]_vars

\* C37 witness: a run ended by a signal in which two samples were added: the
\* analyzer has read RB-raw to its end, made its final transfer and shut
\* RB-class down, and the main thread has returned from ECGAnalyzer::Stop.
NoAddAfterShutdownWitness ==
  /\ path = "graceful" /\ an_joined
  /\ Len(added) = 2 /\ ~overflow
  /\ rbRaw.shutdown /\ Empty(rbRaw)
  /\ rbClass.shutdown /\ an_pc = "done"

\* the acquisition thread has left its loop
AcquisitionLoopLeft == acq_pc \in {"exit", "shut", "done"}

\* C38 -- A shutdown request is sticky and never lost: shutdown_requested_,
\* once set, stays set; when Run is entered with the request already made
\* (before Start or between Start and Run), Run goes through GracefulShutdown
\* and returns, and no sample is added to RB-raw; a request made during the
\* acquisition lets the loop add at most one more sample: only the AddData the
\* thread had already reached, after which its next step leaves the loop.
ShutdownRequestSticky ==
  /\ [][shutdown_requested => shutdown_requested']_vars
  /\ (main_pc = "Run" /\ shutdown_requested)
       ~> (main_pc = "Returned" /\ path = "graceful" /\ added = <<>>)
  /\ [][(shutdown_requested /\ added' # added) =>
          (acq_pc = "add" /\ acq_pc' = "head")]_vars
  /\ [][(shutdown_requested /\ acq_pc \in {"head", "sleep"} /\ acq_pc' # acq_pc) =>
          acq_pc' = "exit"]_vars
  /\ [][AcquisitionLoopLeft => (AcquisitionLoopLeft' /\ added' = added)]_vars

\* C38 witness: a signal was delivered after Start and before Run; Run has
\* returned without starting a thread and without GracefulShutdown.
RequestLostWitness ==
  /\ main_pc = "Returned" /\ path = "none"
  /\ shutdown_requested /\ sigCount = 1 /\ sig_pc = "idle"
  /\ acq_pc = "off" /\ an_pc = "off" /\ wr_pc = "off" /\ tcp_pc = "off"
  /\ added = <<>> /\ ~acq_joined

(***************************************************************************)
(* Claim on the wake-up of the consumer, checked under LiveRB              *)
(***************************************************************************)
\* C39 -- No lost wakeup on data: a consumer inside Consume (about to wait,
\* waiting or woken) while the buffer holds an element eventually returns an
\* element, wherever the producer's locked update and its notify_one fell
\* between the consumer's predicate check and its wait; the producer never
\* waits on the consumer: the mutex is only ever held by the consumer for the
\* step from its predicate check to its wait, AddData can start whenever the
\* mutex is free, also on a full buffer, and its notify_one needs nothing.
NoLostWakeup ==
  /\ (c_pc \in {"towait", "waiting", "woken"} /\ ~Empty(rb))
       ~> (c_pc = "idle" /\ c_last = "Consume" /\ c_ret # None)
  /\ [][(c_pc \in {"waiting", "woken"} /\ ~Empty(rb) /\ c_pc' = "idle") =>
          (c_ret' = Some(rb.buffer[rb.tail]) /\ c_last' = "Consume")]_vars
  /\ [](mutex = "c" <=> c_pc = "towait")
  /\ (mutex = "c") ~> (mutex = "none")
  /\ []((p_pc = "idle" /\ mutex = "none" /\ nextId <= MaxAdd) => ENABLED P_AddData)
  /\ [](p_pc = "notify" => ENABLED P_Notify)

\* C39 witness: the consumer found the buffer empty and is waiting; the
\* producer has stored an element under the lock and has not yet called
\* notify_one; no Shutdown was called.
NoLostWakeupWitness ==
  /\ c_pc = "waiting" /\ p_pc = "notify"
  /\ ~Empty(rb) /\ ~rb.shutdown /\ shutCalls = 0
  /\ consumed = <<>> /\ accepted = <<1>>

====
